---- MODULE Spec2Model ----
(***************************************************************************)
(* AWS invoice analysis: the Claude pipeline of app.py                     *)
(* (extract_comprehensive_aws_data -> validate_and_enhance_analysis ->     *)
(* reconcile_missing_costs) and the text extractors.                       *)
(*                                                                         *)
(* Amounts are exact integers in units of 1/10000 USD, so 1.00 USD is      *)
(* 10000 and 0.01 USD is 100.  Python's binary floats are modelled as      *)
(* exact numbers.                                                          *)
(*                                                                         *)
(* A JSON value is a record [t, v]: t is its type tag and v its number     *)
(* (0 when it has none).  A JSON object is a record of all its possible    *)
(* keys, a key the object lacks holding Absent (numbers) or NoKey          *)
(* (strings).                                                              *)
(***************************************************************************)
EXTENDS Integers, Sequences, FiniteSets, TLC

VARIABLES
    pc,           \* the position of process_comprehensive_aws_analysis
    clientOk,     \* EnhancedClaudeAWSAnalyzer.client is not None
    analysis,     \* analysis_data / enhanced_analysis / initial_analysis
    raised,       \* the exception that ended the run, or "none"
    oracleCalls,  \* reconciliation requests sent to client.messages.create
    oracleReply,  \* the reconciliation oracle's answer to the last request
    passes,       \* calls of reconcile_missing_costs so far
    result,       \* result['success'] of the run: "pending", "success", "error"
    pdf_text,     \* the text of the PDF handed to the text extractors
    line_num,     \* the line the extractor's loop has reached, 1-based
    found_total,        \* extract_all_costs_forensic: invoice_total
    service_items,      \* extract_all_costs_forensic: service_items
    total_extracted,    \* extract_all_costs_forensic: total_extracted
    forensic_analysis,  \* what extract_all_costs_forensic returned
    extracted_cost,     \* what the last call of extract_cost returned
    service_usages,     \* analyze_aws_invoice: service_usages
    total_cost,         \* analyze_aws_invoice: total_cost
    analysis_result,    \* what analyze_aws_invoice returned
    categorized         \* what the last call of categorize_service returned

llmVars == <<clientOk, analysis, raised, oracleCalls, oracleReply, passes, result>>

forensicVars == <<found_total, service_items, total_extracted, forensic_analysis>>

analyzerVars == <<service_usages, total_cost, analysis_result>>

callVars == <<extracted_cost, categorized>>

textVars == <<pdf_text, line_num, forensicVars, analyzerVars, callVars>>

vars == <<pc, llmVars, textVars>>

----------------------------------------------------------------------------
(* Bounds of the model *)

MaxItems == 2        \* first-pass line items in one LLM answer
MaxCandidates == 2   \* missing_items in one reconciliation answer
MaxPasses == 2       \* calls of reconcile_missing_costs by the direct driver

----------------------------------------------------------------------------
(* Program constants *)

FirstPassTolerance == 10000   \* difference < 1.0
ReconciledTolerance == 10000  \* abs(new_difference) < 1.0
AppReconcileGate == 10000     \* difference > 1.0
AlreadyAccurateBelow == 100   \* abs(difference) < 0.01
PromptInvoiceTotal == 36456000 \* 3645.60, the total the prompt states

----------------------------------------------------------------------------
(* JSON values *)

Num(n) == [t |-> "num", v |-> n]
NumStr(n) == [t |-> "numstr", v |-> n]   \* a string that float() parses
Str == [t |-> "str", v |-> 0]            \* a string that float() rejects
Null == [t |-> "null", v |-> 0]
Absent == [t |-> "absent", v |-> 0]      \* the key is not in the object
NoKey == "<absent>"

Abs(n) == IF n < 0 THEN -n ELSE n

\* dict.get(key, 0.0) on a numeric field
GetOrZero(val) == IF val.t = "absent" THEN Num(0) ELSE val

\* float(x): defined on numbers and numeric strings
FloatOk(val) == val.t \in {"num", "numstr"}
Float(val) == Num(val.v)

\* the exception float(x) raises otherwise
FloatError(val) == IF val.t = "str" THEN "ValueError" ELSE "TypeError"

\* dict.get(key, default) on a string field
GetOr(s, default) == IF s = NoKey THEN default ELSE s

----------------------------------------------------------------------------
(* Line items and the analysis dictionary *)

\* A line item as a JSON value: an object with the keys below, or (json =
\* "string") a value that is no object at all.
Item(json, text, quantity, cost, number, reason) ==
    [json |-> json,
     service_category |-> text, service_name |-> text, service_type |-> text,
     region |-> text, usage_quantity |-> quantity, usage_unit |-> text,
     rate_description |-> text, cost_usd |-> cost, line_text |-> text,
     line_number |-> number, reason_missed |-> reason]

NoCostValidation ==
    [calculated_total |-> Absent, invoice_total |-> Absent,
     difference |-> Absent, validation_passed |-> NoKey]

\* {} : what extract_comprehensive_aws_data returns on every failure
EmptyAnalysis ==
    [truthy |-> FALSE, has_items |-> FALSE, service_line_items |-> << >>,
     total_invoice_amount |-> Absent, has_cv |-> FALSE,
     cost_validation |-> NoCostValidation]

RECURSIVE SumCosts(_)
\* sum(item.get('cost_usd', 0.0) for item in items), for items it is defined on
SumCosts(items) ==
    IF items = << >> THEN 0
    ELSE GetOrZero(Head(items).cost_usd).v + SumCosts(Tail(items))

\* item.get('cost_usd', 0.0) can be added to a float
Summable(item) == item.json = "object" /\ GetOrZero(item.cost_usd).t = "num"

----------------------------------------------------------------------------
(* validate_and_enhance_analysis *)

\* the exception building cleaned_item raises, or "none"
CleanError(item) ==
    IF item.json # "object" THEN "AttributeError"
    ELSE IF ~FloatOk(GetOrZero(item.usage_quantity))
         THEN FloatError(GetOrZero(item.usage_quantity))
    ELSE IF ~FloatOk(GetOrZero(item.cost_usd))
         THEN FloatError(GetOrZero(item.cost_usd))
    ELSE "none"

CleanedItem(item) ==
    [json |-> "object",
     service_category |-> GetOr(item.service_category, "Unknown"),
     service_name |-> GetOr(item.service_name, "Unknown Service"),
     service_type |-> GetOr(item.service_type, "Standard"),
     region |-> GetOr(item.region, "unknown"),
     usage_quantity |-> Float(GetOrZero(item.usage_quantity)),
     usage_unit |-> GetOr(item.usage_unit, "Units"),
     rate_description |-> GetOr(item.rate_description, "Standard Rate"),
     cost_usd |-> Float(GetOrZero(item.cost_usd)),
     line_text |-> GetOr(item.line_text, ""),
     line_number |-> Absent,
     reason_missed |-> NoKey]

RECURSIVE FirstCleanError(_)
FirstCleanError(items) ==
    IF items = << >> THEN "none"
    ELSE IF CleanError(Head(items)) # "none" THEN CleanError(Head(items))
    ELSE FirstCleanError(Tail(items))

\* as CleanedItems, the cleaned items in reverse
CleanedItemsReversed(items) ==
    [i \in 1..Len(items) |-> CleanedItem(items[Len(items) + 1 - i])]

CleanedItems(items) == [i \in 1..Len(items) |-> CleanedItem(items[i])]

\* `if invoice_total:`
Truthy(val) ==
    \/ val.t \in {"str", "numstr"}
    \/ val.t = "num" /\ val.v # 0

\* `if not analysis_data or 'service_line_items' not in analysis_data`
ValidateSkips(an) == ~an.truthy \/ ~an.has_items

FirstPassDifference(total, invoice_total) == Abs(total - invoice_total)

FirstPassPassed(difference) == difference < FirstPassTolerance

ValidateError(an) ==
    IF ValidateSkips(an) THEN "none"
    ELSE IF FirstCleanError(an.service_line_items) # "none"
         THEN FirstCleanError(an.service_line_items)
    ELSE IF Truthy(an.total_invoice_amount) /\ an.total_invoice_amount.t # "num"
         THEN "TypeError"
    ELSE "none"

Validated(an) ==
    IF ValidateSkips(an) THEN an
    ELSE
      LET cleaned == CleanedItems(an.service_line_items)
          total == SumCosts(cleaned)
          old == IF an.has_cv THEN an.cost_validation ELSE NoCostValidation
          summed == [old EXCEPT !.calculated_total = Num(total)]
          difference == FirstPassDifference(total, an.total_invoice_amount.v)
      IN [an EXCEPT
            !.service_line_items = cleaned,
            !.has_cv = TRUE,
            !.cost_validation =
               IF Truthy(an.total_invoice_amount)
               THEN [summed EXCEPT
                       !.difference = Num(difference),
                       !.validation_passed =
                          IF FirstPassPassed(difference) THEN "true" ELSE "false"]
               ELSE summed]

----------------------------------------------------------------------------
(* reconcile_missing_costs *)

\* what client.messages.create gave back for the reconciliation prompt:
\*   "raises"     the call raised
\*   "nocontent"  a response without content
\*   "unparsable" text json.loads rejects
\*   "nonobject"  JSON that is no object (missing_data.get raises)
\*   "json"       a JSON object whose missing_items are the candidates
\*   "none"       no request was made
Reply(kind, candidates) == [kind |-> kind, missing_items |-> candidates]

NoReply == Reply("none", << >>)

\* invoice_total - calculated_total needs two numbers (lines 304-306, outside
\* the try block)
ReconcileError(an) ==
    IF /\ GetOrZero(an.cost_validation.calculated_total).t = "num"
       /\ GetOrZero(an.cost_validation.invoice_total).t = "num"
    THEN "none" ELSE "TypeError"

ReconcileDifference(an) ==
    GetOrZero(an.cost_validation.invoice_total).v
      - GetOrZero(an.cost_validation.calculated_total).v

\* the test without abs(): an over-count passes for accurate
AlreadyAccurateUnsigned(difference) == difference < AlreadyAccurateBelow

\* `if abs(difference) < 0.01`
AlreadyAccurate(difference) == Abs(difference) < AlreadyAccurateBelow

\* the reconciliation prompt is sent
OracleAsked(client, an) ==
    client /\ ReconcileError(an) = "none" /\ ~AlreadyAccurate(ReconcileDifference(an))

\* a request repeated when the call raised
RequestsMadeWithRetry(reply) == IF reply.kind = "raises" THEN 2 ELSE 1

\* client.messages.create is called once, outside any loop
RequestsMade(reply) == 1

\* the candidates put in front of the ledger
MergeItemsInFront(items, missing_items) == missing_items \o items

\* initial_analysis['service_line_items'].extend(missing_items)
MergeItems(items, missing_items) == items \o missing_items

\* the sum over the merged items raises (caught by `except Exception`)
SumRaises(items) == \E i \in 1..Len(items) : ~Summable(items[i])

RecomputedTotal(items) == SumCosts(items)

\* the difference with its operands exchanged
NewDifferenceReversed(invoice_total, new_calculated_total) ==
    new_calculated_total - invoice_total

NewDifference(invoice_total, new_calculated_total) ==
    invoice_total - new_calculated_total

ReconciledPassed(new_difference) == Abs(new_difference) < ReconciledTolerance

\* the cost_validation written after a merge (lines 431-434)
UpdatedValidation(an, merged) ==
    LET total == RecomputedTotal(merged)
        difference ==
            NewDifference(GetOrZero(an.cost_validation.invoice_total).v, total)
    IN [an.cost_validation EXCEPT
          !.calculated_total = Num(total),
          !.difference = Num(difference),
          !.validation_passed =
              IF ReconciledPassed(difference) THEN "true" ELSE "false"]

\* the merge without its `if missing_items:`
MergesEvenWhenEmpty(an, reply) == reply.kind = "json" /\ an.has_items

\* the reply carries candidates that line 422 appends
Merges(an, reply) ==
    reply.kind = "json" /\ reply.missing_items # << >> /\ an.has_items

\* the analysis reconcile_missing_costs returns once the oracle has answered
MergedAnalysis(an, reply) ==
    IF ~Merges(an, reply) THEN an
    ELSE
      LET merged == MergeItems(an.service_line_items, reply.missing_items)
      IN IF SumRaises(merged) \/ ~an.has_cv
         THEN [an EXCEPT !.service_line_items = merged]
         ELSE [an EXCEPT !.service_line_items = merged,
                         !.cost_validation = UpdatedValidation(an, merged)]

\* reconcile_missing_costs(pdf_text, filename, initial_analysis)
Reconciled(client, an, reply) ==
    IF OracleAsked(client, an) THEN MergedAnalysis(an, reply) ELSE an

----------------------------------------------------------------------------
(* Text: a line is a sequence of one-character strings, a text the         *)
(* sequence of its lines (text.split('\n'))                                *)

UpperLetters == <<"A", "B", "C", "D", "E", "F", "G", "H", "I", "J", "K", "L", "M", "N", "O", "P", "Q", "R", "S", "T", "U", "V", "W", "X", "Y", "Z">>
LowerLetters == <<"a", "b", "c", "d", "e", "f", "g", "h", "i", "j", "k", "l", "m", "n", "o", "p", "q", "r", "s", "t", "u", "v", "w", "x", "y", "z">>

\* str.lower() on one character
LowerOf == [c \in {UpperLetters[k] : k \in 1..26} |->
               LowerLetters[CHOOSE k \in 1..26 : UpperLetters[k] = c]]

Lower(c) == IF c \in DOMAIN LowerOf THEN LowerOf[c] ELSE c

Digits == <<"0", "1", "2", "3", "4", "5", "6", "7", "8", "9">>
DigitChars == {Digits[k] : k \in 1..10}
DigitValue(c) == (CHOOSE k \in 1..10 : Digits[k] = c) - 1

\* [\d,]
AmountChars == DigitChars \cup {","}

\* \s
SpaceChars == {" ", "\t", "\n"}

\* the first position from i on whose character is outside class, or
\* Len(line) + 1: where a greedy run of class starting at i ends
RunEnd(line, i, class) ==
    CHOOSE j \in i..(Len(line) + 1) :
        /\ j = Len(line) + 1 \/ line[j] \notin class
        /\ \A k \in i..(j - 1) : line[k] \in class

\* str.strip()
Strip(line) ==
    LET first == RunEnd(line, 1, SpaceChars)
        last == CHOOSE j \in 0..Len(line) :
                    /\ j = 0 \/ line[j] \notin SpaceChars
                    /\ \A k \in (j + 1)..Len(line) : line[k] \in SpaceChars
    IN IF first > Len(line) THEN << >> ELSE SubSeq(line, first, last)

\* the literal lit (lower case) stands at position i, case ignored
LiteralAt(line, i, lit) ==
    /\ i + Len(lit) - 1 <= Len(line)
    /\ \A k \in 1..Len(lit) : Lower(line[i + k - 1]) = lit[k]

\* ([\d,]+\.?\d*) read greedily from position j: the position after the
\* group, or j itself when no [\d,] stands at j
GroupEnd(line, j) ==
    CHOOSE e \in
       {IF e1 = j THEN j
        ELSE IF e1 <= Len(line) /\ line[e1] = "."
             THEN RunEnd(line, e1 + 1, DigitChars)
             ELSE RunEnd(line, e1, DigitChars)
          : e1 \in {RunEnd(line, j, AmountChars)}} : TRUE

NoMatch == [found |-> FALSE, group |-> << >>]

\* a pattern  literal \s{min,} \$? ([\d,]+\.?\d*) tail , where tail is
\* "any" (nothing), "end" (\s*$) or "usd" (\s*USD, the literal being empty)
Pattern(literal, minSpace, optDollar, tail) ==
    [literal |-> literal, minSpace |-> minSpace, optDollar |-> optDollar,
     tail |-> tail]

\* where the group of pattern p starts when p is tried at position i, or 0
GroupStart(line, i, p) ==
    IF ~LiteralAt(line, i, p.literal) THEN 0
    ELSE CHOOSE d \in
           {IF w - (i + Len(p.literal)) < p.minSpace THEN 0
            ELSE IF p.optDollar /\ w <= Len(line) /\ line[w] = "$" THEN w + 1
            ELSE w
              : w \in {IF p.minSpace < 0 THEN i + Len(p.literal)
                       ELSE RunEnd(line, i + Len(p.literal), SpaceChars)}} : TRUE

MatchesAt(line, i, p) ==
    \E g \in {GroupStart(line, i, p)} :
       /\ g # 0
       /\ \E e \in {GroupEnd(line, g)} :
             /\ e > g
             /\ \E t \in {RunEnd(line, e, SpaceChars)} :
                   /\ p.tail = "end" => t = Len(line) + 1
                   /\ p.tail = "usd" => LiteralAt(line, t, <<"u", "s", "d">>)

Search(line, p) ==
    CHOOSE m \in
       {IF starts = {} THEN NoMatch
        ELSE CHOOSE r \in
               {[found |-> TRUE, group |-> SubSeq(line, g, GroupEnd(line, g) - 1)] :
                   g \in {GroupStart(line, i, p) :
                            i \in {x \in starts : \A y \in starts : x <= y}}} : TRUE
          : starts \in {{i \in 1..Len(line) : MatchesAt(line, i, p)}}} : TRUE

----------------------------------------------------------------------------
(* Decimal(group.replace(',', '')) *)

RECURSIVE WithoutCommas(_)
WithoutCommas(group) ==
    IF group = << >> THEN << >>
    ELSE IF Head(group) = "," THEN WithoutCommas(Tail(group))
    ELSE <<Head(group)>> \o WithoutCommas(Tail(group))

RECURSIVE DigitsValue(_)
\* the number a string of digits denotes
DigitsValue(digits) ==
    IF digits = << >> THEN 0
    ELSE 10 * DigitsValue(SubSeq(digits, 1, Len(digits) - 1))
           + DigitValue(digits[Len(digits)])

RECURSIVE Scaled(_, _)
\* n * 10^k
Scaled(n, k) == IF k <= 0 THEN n ELSE Scaled(10 * n, k - 1)

\* where the point stands in a string of digits and at most one point, or
\* Len + 1
PointAt(str) == RunEnd(str, 1, DigitChars)

\* Decimal(str) raises InvalidOperation: the string holds no digit
InvalidDecimal(str) == \A k \in 1..Len(str) : str[k] \notin DigitChars

\* Decimal(str) in units of 10^-4, for strings with at most four decimals
DecimalValue(str) ==
    LET point == PointAt(str)
        whole == SubSeq(str, 1, point - 1)
        fraction == SubSeq(str, point + 1, Len(str))
    IN Scaled(DigitsValue(whole), 4) + Scaled(DigitsValue(fraction), 4 - Len(fraction))

\* the exception Decimal(str) raises, or "none"
DecimalError(str) == IF InvalidDecimal(str) THEN "InvalidOperation" ELSE "none"

\* as CaughtWhileParsing, InvalidOperation left out
CaughtOnlyValueError == {"ValueError"}

\* `except (InvalidOperation, ValueError ...)`: what both extractors catch
\* around Decimal(cost_str)
CaughtWhileParsing == {"InvalidOperation", "ValueError"}

\* None
NoCost == [found |-> FALSE, value |-> 0, raised |-> "none"]

RECURSIVE FirstParsedCostSigned(_, _)
\* as FirstParsedCost, a minus sign on the line making the amount a credit
FirstParsedCostSigned(line, patterns) ==
    IF patterns = << >> THEN NoCost
    ELSE LET m == Search(line, Head(patterns))
             str == WithoutCommas(m.group)
             credit == \E k \in 1..Len(line) : line[k] = "-"
         IN IF m.found /\ ~InvalidDecimal(str)
            THEN [found |-> TRUE,
                  value |-> IF credit THEN 0 - DecimalValue(str) ELSE DecimalValue(str),
                  raised |-> "none"]
            ELSE FirstParsedCostSigned(line, Tail(patterns))

RECURSIVE FirstParsedCost(_, _)
\* the patterns tried in order: the amount of the first one that matches and
\* whose group parses; a pattern whose group raises a caught exception is
\* passed over (`continue`), any other exception leaves the function
FirstParsedCost(line, patterns) ==
    IF patterns = << >> THEN NoCost
    ELSE CHOOSE r \in
           {IF ~m.found THEN FirstParsedCost(line, Tail(patterns))
            ELSE CHOOSE q \in
                   {IF DecimalError(str) = "none"
                    THEN [found |-> TRUE, value |-> DecimalValue(str), raised |-> "none"]
                    ELSE IF DecimalError(str) \in CaughtWhileParsing
                    THEN FirstParsedCost(line, Tail(patterns))
                    ELSE [found |-> FALSE, value |-> 0, raised |-> DecimalError(str)]
                      : str \in {WithoutCommas(m.group)}} : TRUE
              : m \in {Search(line, Head(patterns))}} : TRUE

ForensicCostPatterns ==
    << Pattern(<<"u", "s", "d">>, 1, FALSE, "end"),
       Pattern(<<"$">>, 0, FALSE, "end"),
       Pattern(<<"a", "m", "o", "u", "n", "t", " ", "i", "n", " ", "u", "s", "d">>, 1, FALSE, "any"),
       Pattern(<<"t", "o", "t", "a", "l", " ", "i", "n", " ", "u", "s", "d">>, 1, FALSE, "any"),
       Pattern(<<"u", "s", "d">>, 1, FALSE, "end") >>

\* AWSServiceAnalyzer._initialize_cost_patterns
AnalyzerCostPatterns ==
    << Pattern(<<"u", "s", "d">>, 1, FALSE, "any"),
       Pattern(<<"$">>, 0, FALSE, "any"),
       Pattern(<< >>, -1, FALSE, "usd"),
       Pattern(<<"c", "o", "s", "t", ":">>, 0, TRUE, "any"),
       Pattern(<<"t", "o", "t", "a", "l", ":">>, 0, TRUE, "any") >>

\* ForensicAWSExtractor._extract_cost_from_line
ExtractCostFromLine(line) == FirstParsedCost(line, ForensicCostPatterns)

\* as ExtractCost, the largest of the amounts the patterns read
ExtractCostLargest(line) ==
    LET amounts == {FirstParsedCost(line, <<AnalyzerCostPatterns[k]>>) :
                       k \in 1..Len(AnalyzerCostPatterns)}
        parsed == {a \in amounts : a.found}
    IN IF parsed = {} THEN NoCost
       ELSE CHOOSE a \in parsed : \A b \in parsed : b.value <= a.value

\* AWSServiceAnalyzer.extract_cost
ExtractCost(line) == FirstParsedCost(line, AnalyzerCostPatterns)


----------------------------------------------------------------------------
(* categorize_service, aws_service_analyzer.py.  A confidence is written   *)
(* in hundredths: 0.1 is 10 and 1.0 is 100.                                *)

\* AWSServiceAnalyzer._initialize_service_patterns, in declaration order
ServicePatterns ==
    <<
       [category |-> "EC2",
        keywords |->
          << <<"e", "l", "a", "s", "t", "i", "c", " ", "c", "o", "m", "p", "u", "t", "e", " ", "c", "l", "o", "u", "d">>,
             <<"e", "c", "2">>,
             <<"i", "n", "s", "t", "a", "n", "c", "e">>,
             <<"c", "o", "m", "p", "u", "t", "e">>,
             <<"t", "2", ".">>,
             <<"t", "3", ".">>,
             <<"t", "3", "a", ".">>,
             <<"t", "4", "g", ".">>,
             <<"m", "5", ".">>,
             <<"m", "5", "a", ".">>,
             <<"m", "5", "n", ".">>,
             <<"m", "5", "z", "n", ".">>,
             <<"c", "5", ".">>,
             <<"c", "5", "a", ".">>,
             <<"c", "5", "n", ".">>,
             <<"c", "6", "g", ".">>,
             <<"c", "6", "g", "n", ".">>,
             <<"c", "6", "i", ".">>,
             <<"r", "5", ".">>,
             <<"r", "5", "a", ".">>,
             <<"r", "5", "b", ".">>,
             <<"r", "5", "n", ".">>,
             <<"r", "6", "g", ".">>,
             <<"r", "6", "i", ".">>,
             <<"x", "1", ".">>,
             <<"x", "1", "e", ".">>,
             <<"z", "1", "d", ".">>,
             <<"i", "3", ".">>,
             <<"i", "3", "e", "n", ".">>,
             <<"i", "4", "i", ".">>,
             <<"f", "1", ".">>,
             <<"g", "4", "d", "n", ".">>,
             <<"g", "4", "a", "d", ".">>,
             <<"p", "3", ".">>,
             <<"p", "4", "d", ".">>,
             <<"a", "1", ".">>,
             <<"u", "-">>,
             <<"m", "a", "c", "1", ".">>,
             <<"d", "l", "1", ".">> >>,
        units |->
          << <<"h", "o", "u", "r", "s">>,
             <<"h", "r", "s">>,
             <<"h", "o", "u", "r">>,
             <<"i", "n", "s", "t", "a", "n", "c", "e", "-", "h", "o", "u", "r", "s">>,
             <<"v", "c", "p", "u", "-", "h", "o", "u", "r", "s">> >>],
       [category |-> "RDS",
        keywords |->
          << <<"r", "e", "l", "a", "t", "i", "o", "n", "a", "l", " ", "d", "a", "t", "a", "b", "a", "s", "e", " ", "s", "e", "r", "v", "i", "c", "e">>,
             <<"r", "d", "s">>,
             <<"d", "a", "t", "a", "b", "a", "s", "e">>,
             <<"d", "b", ".">>,
             <<"m", "y", "s", "q", "l">>,
             <<"m", "a", "r", "i", "a", "d", "b">>,
             <<"p", "o", "s", "t", "g", "r", "e", "s", "q", "l">>,
             <<"o", "r", "a", "c", "l", "e">>,
             <<"s", "q", "l", " ", "s", "e", "r", "v", "e", "r">>,
             <<"a", "u", "r", "o", "r", "a">>,
             <<"b", "a", "c", "k", "u", "p", " ", "s", "t", "o", "r", "a", "g", "e">>,
             <<"s", "n", "a", "p", "s", "h", "o", "t">>,
             <<"m", "u", "l", "t", "i", "-", "a", "z">> >>,
        units |->
          << <<"h", "o", "u", "r", "s">>,
             <<"h", "r", "s">>,
             <<"g", "b", "-", "m", "o">>,
             <<"g", "b", "-", "m", "o", "n", "t", "h">>,
             <<"i", "o", "p", "s", "-", "m", "o">>,
             <<"r", "e", "q", "u", "e", "s", "t", "s">> >>],
       [category |-> "S3",
        keywords |->
          << <<"s", "i", "m", "p", "l", "e", " ", "s", "t", "o", "r", "a", "g", "e", " ", "s", "e", "r", "v", "i", "c", "e">>,
             <<"s", "3">>,
             <<"s", "t", "o", "r", "a", "g", "e">>,
             <<"r", "e", "q", "u", "e", "s", "t", "s", "-", "t", "i", "e", "r", "1">>,
             <<"r", "e", "q", "u", "e", "s", "t", "s", "-", "t", "i", "e", "r", "2">>,
             <<"t", "i", "m", "e", "d", "s", "t", "o", "r", "a", "g", "e">>,
             <<"g", "l", "a", "c", "i", "e", "r">>,
             <<"d", "e", "e", "p", " ", "a", "r", "c", "h", "i", "v", "e">>,
             <<"i", "n", "t", "e", "l", "l", "i", "g", "e", "n", "t", " ", "t", "i", "e", "r", "i", "n", "g">>,
             <<"p", "u", "t">>,
             <<"g", "e", "t">>,
             <<"c", "o", "p", "y">>,
             <<"p", "o", "s", "t">>,
             <<"l", "i", "s", "t">>,
             <<"d", "e", "l", "e", "t", "e">> >>,
        units |->
          << <<"g", "b", "-", "m", "o">>,
             <<"g", "b", "-", "m", "o", "n", "t", "h">>,
             <<"r", "e", "q", "u", "e", "s", "t", "s">>,
             <<"g", "b">>,
             <<"t", "b">> >>],
       [category |-> "Lambda",
        keywords |->
          << <<"l", "a", "m", "b", "d", "a">>,
             <<"a", "w", "s", " ", "l", "a", "m", "b", "d", "a">>,
             <<"s", "e", "r", "v", "e", "r", "l", "e", "s", "s", " ", "c", "o", "m", "p", "u", "t", "e">>,
             <<"r", "e", "q", "u", "e", "s", "t">>,
             <<"d", "u", "r", "a", "t", "i", "o", "n">>,
             <<"g", "b", "-", "s", "e", "c", "o", "n", "d">> >>,
        units |->
          << <<"r", "e", "q", "u", "e", "s", "t", "s">>,
             <<"g", "b", "-", "s", "e", "c", "o", "n", "d", "s">>,
             <<"d", "u", "r", "a", "t", "i", "o", "n", "-", "m", "s">> >>],
       [category |-> "CloudFront",
        keywords |->
          << <<"c", "l", "o", "u", "d", "f", "r", "o", "n", "t">>,
             <<"c", "d", "n">>,
             <<"c", "o", "n", "t", "e", "n", "t", " ", "d", "e", "l", "i", "v", "e", "r", "y">>,
             <<"d", "a", "t", "a", " ", "t", "r", "a", "n", "s", "f", "e", "r">>,
             <<"r", "e", "q", "u", "e", "s", "t", "s">>,
             <<"o", "r", "i", "g", "i", "n", " ", "r", "e", "q", "u", "e", "s", "t", "s">> >>,
        units |->
          << <<"g", "b">>,
             <<"r", "e", "q", "u", "e", "s", "t", "s">>,
             <<"t", "b">> >>],
       [category |-> "EBS",
        keywords |->
          << <<"e", "l", "a", "s", "t", "i", "c", " ", "b", "l", "o", "c", "k", " ", "s", "t", "o", "r", "e">>,
             <<"e", "b", "s">>,
             <<"v", "o", "l", "u", "m", "e">>,
             <<"g", "p", "2">>,
             <<"g", "p", "3">>,
             <<"i", "o", "1">>,
             <<"i", "o", "2">>,
             <<"s", "t", "1">>,
             <<"s", "c", "1">>,
             <<"s", "n", "a", "p", "s", "h", "o", "t">>,
             <<"p", "r", "o", "v", "i", "s", "i", "o", "n", "e", "d", " ", "i", "o", "p", "s">> >>,
        units |->
          << <<"g", "b", "-", "m", "o">>,
             <<"g", "b", "-", "m", "o", "n", "t", "h">>,
             <<"i", "o", "p", "s", "-", "m", "o">>,
             <<"g", "b">> >>],
       [category |-> "VPC",
        keywords |->
          << <<"v", "i", "r", "t", "u", "a", "l", " ", "p", "r", "i", "v", "a", "t", "e", " ", "c", "l", "o", "u", "d">>,
             <<"v", "p", "c">>,
             <<"n", "a", "t", " ", "g", "a", "t", "e", "w", "a", "y">>,
             <<"v", "p", "c", " ", "e", "n", "d", "p", "o", "i", "n", "t">>,
             <<"t", "r", "a", "n", "s", "i", "t", " ", "g", "a", "t", "e", "w", "a", "y">>,
             <<"v", "p", "n">>,
             <<"d", "a", "t", "a", " ", "t", "r", "a", "n", "s", "f", "e", "r">>,
             <<"e", "l", "a", "s", "t", "i", "c", " ", "i", "p">> >>,
        units |->
          << <<"h", "o", "u", "r", "s">>,
             <<"g", "b">>,
             <<"c", "o", "n", "n", "e", "c", "t", "i", "o", "n", "s">> >>],
       [category |-> "ElastiCache",
        keywords |->
          << <<"e", "l", "a", "s", "t", "i", "c", "a", "c", "h", "e">>,
             <<"r", "e", "d", "i", "s">>,
             <<"m", "e", "m", "c", "a", "c", "h", "e", "d">>,
             <<"c", "a", "c", "h", "e">>,
             <<"c", "a", "c", "h", "e", ".">>,
             <<"n", "o", "d", "e", " ", "h", "o", "u", "r", "s">> >>,
        units |->
          << <<"h", "o", "u", "r", "s">>,
             <<"n", "o", "d", "e", "-", "h", "o", "u", "r", "s">>,
             <<"g", "b", "-", "m", "o">> >>],
       [category |-> "SQS",
        keywords |->
          << <<"s", "i", "m", "p", "l", "e", " ", "q", "u", "e", "u", "e", " ", "s", "e", "r", "v", "i", "c", "e">>,
             <<"s", "q", "s">>,
             <<"q", "u", "e", "u", "e">>,
             <<"r", "e", "q", "u", "e", "s", "t", "s", "-", "t", "i", "e", "r", "1">>,
             <<"r", "e", "q", "u", "e", "s", "t", "s", "-", "t", "i", "e", "r", "2">> >>,
        units |->
          << <<"r", "e", "q", "u", "e", "s", "t", "s">>,
             <<"m", "e", "s", "s", "a", "g", "e", "s">> >>],
       [category |-> "SNS",
        keywords |->
          << <<"s", "i", "m", "p", "l", "e", " ", "n", "o", "t", "i", "f", "i", "c", "a", "t", "i", "o", "n", " ", "s", "e", "r", "v", "i", "c", "e">>,
             <<"s", "n", "s">>,
             <<"n", "o", "t", "i", "f", "i", "c", "a", "t", "i", "o", "n", "s">>,
             <<"m", "e", "s", "s", "a", "g", "e", "s">>,
             <<"e", "m", "a", "i", "l">>,
             <<"s", "m", "s">> >>,
        units |->
          << <<"r", "e", "q", "u", "e", "s", "t", "s">>,
             <<"m", "e", "s", "s", "a", "g", "e", "s">>,
             <<"n", "o", "t", "i", "f", "i", "c", "a", "t", "i", "o", "n", "s">> >>],
       [category |-> "CloudWatch",
        keywords |->
          << <<"c", "l", "o", "u", "d", "w", "a", "t", "c", "h">>,
             <<"m", "o", "n", "i", "t", "o", "r", "i", "n", "g">>,
             <<"l", "o", "g", "s">>,
             <<"m", "e", "t", "r", "i", "c", "s">>,
             <<"a", "l", "a", "r", "m", "s">>,
             <<"d", "a", "s", "h", "b", "o", "a", "r", "d", "s">>,
             <<"i", "n", "s", "i", "g", "h", "t", "s">> >>,
        units |->
          << <<"r", "e", "q", "u", "e", "s", "t", "s">>,
             <<"m", "e", "t", "r", "i", "c", "s">>,
             <<"g", "b">>,
             <<"a", "l", "a", "r", "m", "s">> >>],
       [category |-> "Route53",
        keywords |->
          << <<"r", "o", "u", "t", "e", " ", "5", "3">>,
             <<"r", "o", "u", "t", "e", "5", "3">>,
             <<"d", "n", "s">>,
             <<"h", "o", "s", "t", "e", "d", " ", "z", "o", "n", "e">>,
             <<"q", "u", "e", "r", "i", "e", "s">>,
             <<"h", "e", "a", "l", "t", "h", " ", "c", "h", "e", "c", "k", "s">> >>,
        units |->
          << <<"q", "u", "e", "r", "i", "e", "s">>,
             <<"h", "o", "s", "t", "e", "d", " ", "z", "o", "n", "e", "s">>,
             <<"h", "e", "a", "l", "t", "h", " ", "c", "h", "e", "c", "k", "s">> >>],
       [category |-> "API_Gateway",
        keywords |->
          << <<"a", "p", "i", " ", "g", "a", "t", "e", "w", "a", "y">>,
             <<"a", "p", "i", "g", "a", "t", "e", "w", "a", "y">>,
             <<"r", "e", "s", "t", " ", "a", "p", "i">>,
             <<"w", "e", "b", "s", "o", "c", "k", "e", "t">>,
             <<"h", "t", "t", "p", " ", "a", "p", "i">> >>,
        units |->
          << <<"r", "e", "q", "u", "e", "s", "t", "s">>,
             <<"m", "e", "s", "s", "a", "g", "e", "s">>,
             <<"m", "i", "n", "u", "t", "e", "s">> >>],
       [category |-> "Kinesis",
        keywords |->
          << <<"k", "i", "n", "e", "s", "i", "s">>,
             <<"d", "a", "t", "a", " ", "s", "t", "r", "e", "a", "m", "s">>,
             <<"f", "i", "r", "e", "h", "o", "s", "e">>,
             <<"a", "n", "a", "l", "y", "t", "i", "c", "s">>,
             <<"s", "h", "a", "r", "d", " ", "h", "o", "u", "r", "s">>,
             <<"r", "e", "c", "o", "r", "d", "s">> >>,
        units |->
          << <<"s", "h", "a", "r", "d", "-", "h", "o", "u", "r", "s">>,
             <<"r", "e", "c", "o", "r", "d", "s">>,
             <<"g", "b">>,
             <<"h", "o", "u", "r", "s">> >>],
       [category |-> "DynamoDB",
        keywords |->
          << <<"d", "y", "n", "a", "m", "o", "d", "b">>,
             <<"n", "o", "s", "q", "l">>,
             <<"t", "a", "b", "l", "e">>,
             <<"r", "e", "a", "d", " ", "c", "a", "p", "a", "c", "i", "t", "y">>,
             <<"w", "r", "i", "t", "e", " ", "c", "a", "p", "a", "c", "i", "t", "y">>,
             <<"o", "n", "-", "d", "e", "m", "a", "n", "d">>,
             <<"p", "r", "o", "v", "i", "s", "i", "o", "n", "e", "d">> >>,
        units |->
          << <<"r", "c", "u", "-", "h", "o", "u", "r", "s">>,
             <<"w", "c", "u", "-", "h", "o", "u", "r", "s">>,
             <<"g", "b", "-", "m", "o">>,
             <<"r", "e", "q", "u", "e", "s", "t", "s">> >>],
       [category |-> "Redshift",
        keywords |->
          << <<"r", "e", "d", "s", "h", "i", "f", "t">>,
             <<"d", "a", "t", "a", " ", "w", "a", "r", "e", "h", "o", "u", "s", "e">>,
             <<"c", "l", "u", "s", "t", "e", "r">>,
             <<"d", "c", "2", ".">>,
             <<"d", "s", "2", ".">>,
             <<"r", "a", "3", ".">> >>,
        units |->
          << <<"h", "o", "u", "r", "s">>,
             <<"n", "o", "d", "e", "-", "h", "o", "u", "r", "s">>,
             <<"g", "b", "-", "m", "o">> >>],
       [category |-> "EMR",
        keywords |->
          << <<"e", "l", "a", "s", "t", "i", "c", " ", "m", "a", "p", "r", "e", "d", "u", "c", "e">>,
             <<"e", "m", "r">>,
             <<"h", "a", "d", "o", "o", "p">>,
             <<"s", "p", "a", "r", "k">>,
             <<"c", "l", "u", "s", "t", "e", "r", " ", "h", "o", "u", "r", "s">> >>,
        units |->
          << <<"h", "o", "u", "r", "s">>,
             <<"c", "l", "u", "s", "t", "e", "r", "-", "h", "o", "u", "r", "s">>,
             <<"i", "n", "s", "t", "a", "n", "c", "e", "-", "h", "o", "u", "r", "s">> >>],
       [category |-> "Glue",
        keywords |->
          << <<"g", "l", "u", "e">>,
             <<"e", "t", "l">>,
             <<"c", "r", "a", "w", "l", "e", "r">>,
             <<"j", "o", "b", " ", "r", "u", "n", "s">>,
             <<"d", "p", "u", "-", "h", "o", "u", "r", "s">>,
             <<"d", "e", "v", "e", "l", "o", "p", "m", "e", "n", "t", " ", "e", "n", "d", "p", "o", "i", "n", "t">> >>,
        units |->
          << <<"d", "p", "u", "-", "h", "o", "u", "r", "s">>,
             <<"h", "o", "u", "r", "s">>,
             <<"r", "e", "q", "u", "e", "s", "t", "s">> >>],
       [category |-> "Athena",
        keywords |->
          << <<"a", "t", "h", "e", "n", "a">>,
             <<"q", "u", "e", "r", "y">>,
             <<"d", "a", "t", "a", " ", "s", "c", "a", "n", "n", "e", "d">>,
             <<"s", "e", "r", "v", "e", "r", "l", "e", "s", "s", " ", "q", "u", "e", "r", "y">> >>,
        units |->
          << <<"g", "b">>,
             <<"t", "b">>,
             <<"q", "u", "e", "r", "i", "e", "s">> >>],
       [category |-> "ECS",
        keywords |->
          << <<"e", "l", "a", "s", "t", "i", "c", " ", "c", "o", "n", "t", "a", "i", "n", "e", "r", " ", "s", "e", "r", "v", "i", "c", "e">>,
             <<"e", "c", "s">>,
             <<"f", "a", "r", "g", "a", "t", "e">>,
             <<"c", "o", "n", "t", "a", "i", "n", "e", "r">>,
             <<"t", "a", "s", "k">>,
             <<"v", "c", "p", "u", "-", "h", "o", "u", "r", "s">>,
             <<"g", "b", "-", "h", "o", "u", "r", "s">> >>,
        units |->
          << <<"v", "c", "p", "u", "-", "h", "o", "u", "r", "s">>,
             <<"g", "b", "-", "h", "o", "u", "r", "s">>,
             <<"h", "o", "u", "r", "s">> >>],
       [category |-> "EKS",
        keywords |->
          << <<"e", "l", "a", "s", "t", "i", "c", " ", "k", "u", "b", "e", "r", "n", "e", "t", "e", "s", " ", "s", "e", "r", "v", "i", "c", "e">>,
             <<"e", "k", "s">>,
             <<"k", "u", "b", "e", "r", "n", "e", "t", "e", "s">>,
             <<"c", "l", "u", "s", "t", "e", "r", " ", "h", "o", "u", "r", "s">> >>,
        units |->
          << <<"h", "o", "u", "r", "s">>,
             <<"c", "l", "u", "s", "t", "e", "r", "-", "h", "o", "u", "r", "s">> >>],
       [category |-> "EFS",
        keywords |->
          << <<"e", "l", "a", "s", "t", "i", "c", " ", "f", "i", "l", "e", " ", "s", "y", "s", "t", "e", "m">>,
             <<"e", "f", "s">>,
             <<"f", "i", "l", "e", " ", "s", "y", "s", "t", "e", "m">>,
             <<"t", "h", "r", "o", "u", "g", "h", "p", "u", "t">>,
             <<"i", "n", "f", "r", "e", "q", "u", "e", "n", "t", " ", "a", "c", "c", "e", "s", "s">>,
             <<"o", "n", "e", " ", "z", "o", "n", "e">> >>,
        units |->
          << <<"g", "b", "-", "m", "o">>,
             <<"g", "b">>,
             <<"r", "e", "q", "u", "e", "s", "t", "s">> >>],
       [category |-> "Backup",
        keywords |->
          << <<"a", "w", "s", " ", "b", "a", "c", "k", "u", "p">>,
             <<"b", "a", "c", "k", "u", "p", " ", "s", "t", "o", "r", "a", "g", "e">>,
             <<"b", "a", "c", "k", "u", "p">>,
             <<"w", "a", "r", "m", " ", "b", "a", "c", "k", "u", "p">>,
             <<"c", "o", "l", "d", " ", "b", "a", "c", "k", "u", "p">> >>,
        units |->
          << <<"g", "b", "-", "m", "o", "n", "t", "h">>,
             <<"g", "b", "-", "m", "o">>,
             <<"s", "n", "a", "p", "s", "h", "o", "t", "s">> >>],
       [category |-> "DataTransfer",
        keywords |->
          << <<"d", "a", "t", "a", " ", "t", "r", "a", "n", "s", "f", "e", "r">>,
             <<"a", "w", "s", " ", "d", "a", "t", "a", " ", "t", "r", "a", "n", "s", "f", "e", "r">>,
             <<"t", "r", "a", "n", "s", "f", "e", "r">>,
             <<"c", "l", "o", "u", "d", "f", "r", "o", "n", "t">>,
             <<"i", "n", "t", "e", "r", "-", "r", "e", "g", "i", "o", "n">>,
             <<"i", "n", "t", "e", "r", "n", "e", "t">> >>,
        units |->
          << <<"g", "b">>,
             <<"t", "b">>,
             <<"b", "y", "t", "e", "s">> >>],
       [category |-> "Marketplace",
        keywords |->
          << <<"m", "a", "r", "k", "e", "t", "p", "l", "a", "c", "e">>,
             <<"a", "w", "s", " ", "m", "a", "r", "k", "e", "t", "p", "l", "a", "c", "e">>,
             <<"c", "l", "a", "u", "d", "e">>,
             <<"b", "e", "d", "r", "o", "c", "k">>,
             <<"t", "h", "i", "r", "d", "-", "p", "a", "r", "t", "y">>,
             <<"s", "o", "f", "t", "w", "a", "r", "e", " ", "u", "s", "a", "g", "e">> >>,
        units |->
          << <<"t", "o", "k", "e", "n", "s">>,
             <<"r", "e", "q", "u", "e", "s", "t", "s">>,
             <<"h", "o", "u", "r", "s">>,
             <<"u", "n", "i", "t", "s">> >>],
       [category |-> "Other",
        keywords |->
          << <<"s", "u", "p", "p", "o", "r", "t">>,
             <<"t", "a", "x">>,
             <<"c", "r", "e", "d", "i", "t", "s">>,
             <<"r", "e", "f", "u", "n", "d", "s">>,
             <<"m", "a", "r", "k", "e", "t", "p", "l", "a", "c", "e">>,
             <<"t", "r", "a", "i", "n", "i", "n", "g">>,
             <<"c", "e", "r", "t", "i", "f", "i", "c", "a", "t", "i", "o", "n">> >>,
        units |->
          << <<"u", "s", "d">>,
             <<"c", "r", "e", "d", "i", "t", "s">>,
             <<"h", "o", "u", "r", "s">> >>]
    >>

\* str.lower()
LowerLine(line) == [k \in 1..Len(line) |-> Lower(line[k])]

\* `word in line`: word stands somewhere in line
Contains(line, word) ==
    \E i \in 1..(Len(line) - Len(word) + 1) :
        \A k \in 1..Len(word) : line[i + k - 1] = word[k]

\* len(keyword.split())
WordCount(keyword) ==
    Cardinality({k \in 1..Len(keyword) :
                    /\ keyword[k] \notin SpaceChars
                    /\ k = 1 \/ keyword[k - 1] \in SpaceChars})

\* keyword.lower() and unit.lower() of one entry of the catalog, and the
\* weight len(keyword.split()) * 2 of every keyword
LoweredEntry(entry) ==
    [category |-> entry.category,
     keywords |-> [j \in 1..Len(entry.keywords) |-> LowerLine(entry.keywords[j])],
     weights |-> [j \in 1..Len(entry.keywords) |-> WordCount(entry.keywords[j]) * 2],
     units |-> [j \in 1..Len(entry.units) |-> LowerLine(entry.units[j])]]

\* the entries of a catalog, lowered, in its order
LoweredCatalog(patterns) == [k \in 1..Len(patterns) |-> LoweredEntry(patterns[k])]

\* self.service_patterns as categorize_service reads it
LoweredPatterns == LoweredCatalog(ServicePatterns)

RECURSIVE SumOver(_, _)
SumOver(f, n) == IF n = 0 THEN 0 ELSE f[n] + SumOver(f, n - 1)

\* as KeywordScore, every keyword found counting 2 whatever its words
KeywordScoreFlat(line_lower, entry) ==
    SumOver([j \in 1..Len(entry.keywords) |->
                IF Contains(line_lower, entry.keywords[j]) THEN 2 ELSE 0],
            Len(entry.keywords))

\* `score += len(keyword.split()) * 2` for the keywords found
KeywordScore(line_lower, entry) ==
    SumOver([j \in 1..Len(entry.keywords) |->
                IF Contains(line_lower, entry.keywords[j]) THEN entry.weights[j] ELSE 0],
            Len(entry.keywords))

\* `score += 1` for the units found
UnitScore(line_lower, entry) ==
    SumOver([j \in 1..Len(entry.units) |->
                IF Contains(line_lower, entry.units[j]) THEN 1 ELSE 0],
            Len(entry.units))

\* the score of one category of the catalog for a lowered line
CategoryScore(line_lower, entry) ==
    KeywordScore(line_lower, entry) + UnitScore(line_lower, entry)

\* the score of every category, in the catalog's order
ScoresOf(line_lower, patterns) ==
    [k \in 1..Len(patterns) |-> CategoryScore(line_lower, patterns[k])]

\* `if score > 0: category_scores[category] = score`
ScoresAboveZero(all) == [k \in {j \in DOMAIN all : all[j] > 0} |-> all[k]]

\* category_scores: the categories that scored above 0
CategoryScores(line) == ScoresAboveZero(ScoresOf(LowerLine(line), LoweredPatterns))

\* as BestCategory, the last of the entries with the highest score
BestCategoryLast(scores) ==
    CHOOSE k \in DOMAIN scores :
        /\ \A j \in DOMAIN scores : scores[j] <= scores[k]
        /\ \A j \in DOMAIN scores : scores[j] = scores[k] => j <= k

\* max(category_scores.items(), key=lambda x: x[1]): the first of the
\* entries with the highest score, in insertion order
BestCategory(scores) ==
    CHOOSE k \in DOMAIN scores :
        /\ \A j \in DOMAIN scores : scores[j] <= scores[k]
        /\ \A j \in DOMAIN scores : scores[j] = scores[k] => k <= j

\* as Confidence, the score taken out of 100: min(score / 100.0, 1.0)
ConfidenceOutOfHundred(score) == IF score < 100 THEN score ELSE 100

\* as Confidence, without the cap: score / 10.0
ConfidenceUncapped(score) == (score * 100) \div 10

\* min(score / 10.0, 1.0)
Confidence(score) ==
    IF (score * 100) \div 10 < 100 THEN (score * 100) \div 10 ELSE 100

\* `return 'Other', 0.0` without a score, otherwise the best entry and its
\* confidence
BestOf(scores, best) ==
    IF DOMAIN scores = {} THEN [category |-> "Other", confidence |-> 0]
    ELSE [category |-> LoweredPatterns[best].category,
          confidence |-> Confidence(scores[best])]

\* max(...) over category_scores when it holds a score
Categorized(scores) ==
    BestOf(scores, IF DOMAIN scores = {} THEN 0 ELSE BestCategory(scores))

\* AWSServiceAnalyzer.categorize_service
CategorizeService(line) == Categorized(CategoryScores(line))

----------------------------------------------------------------------------
(* Regions and usage quantities: extract_region and                        *)
(* extract_usage_quantity_and_unit of aws_service_analyzer.py, and        *)
(* _extract_region and _extract_usage of forensic_extractor.py            *)

\* AWSServiceAnalyzer._initialize_region_patterns, in declaration order; a
\* character outside ASCII is written <U+code point>
RegionPatterns ==
    <<
       [region_code |-> <<"u", "s", "-", "e", "a", "s", "t", "-", "1">>,
        aliases |->
          << <<"u", "s", " ", "e", "a", "s", "t", " ", "(", "n", ".", " ", "v", "i", "r", "g", "i", "n", "i", "a", ")">>,
             <<"u", "s", "-", "e", "a", "s", "t", "-", "1">>,
             <<"u", "s", "e", "1">>,
             <<"v", "i", "r", "g", "i", "n", "i", "a">> >>],
       [region_code |-> <<"u", "s", "-", "e", "a", "s", "t", "-", "2">>,
        aliases |->
          << <<"u", "s", " ", "e", "a", "s", "t", " ", "(", "o", "h", "i", "o", ")">>,
             <<"u", "s", "-", "e", "a", "s", "t", "-", "2">>,
             <<"u", "s", "e", "2">>,
             <<"o", "h", "i", "o">> >>],
       [region_code |-> <<"u", "s", "-", "w", "e", "s", "t", "-", "1">>,
        aliases |->
          << <<"u", "s", " ", "w", "e", "s", "t", " ", "(", "n", ".", " ", "c", "a", "l", "i", "f", "o", "r", "n", "i", "a", ")">>,
             <<"u", "s", "-", "w", "e", "s", "t", "-", "1">>,
             <<"u", "s", "w", "1">>,
             <<"c", "a", "l", "i", "f", "o", "r", "n", "i", "a">> >>],
       [region_code |-> <<"u", "s", "-", "w", "e", "s", "t", "-", "2">>,
        aliases |->
          << <<"u", "s", " ", "w", "e", "s", "t", " ", "(", "o", "r", "e", "g", "o", "n", ")">>,
             <<"u", "s", "-", "w", "e", "s", "t", "-", "2">>,
             <<"u", "s", "w", "2">>,
             <<"o", "r", "e", "g", "o", "n">> >>],
       [region_code |-> <<"e", "u", "-", "w", "e", "s", "t", "-", "1">>,
        aliases |->
          << <<"e", "u", " ", "(", "i", "r", "e", "l", "a", "n", "d", ")">>,
             <<"e", "u", "-", "w", "e", "s", "t", "-", "1">>,
             <<"e", "u", "w", "1">>,
             <<"i", "r", "e", "l", "a", "n", "d">> >>],
       [region_code |-> <<"e", "u", "-", "w", "e", "s", "t", "-", "2">>,
        aliases |->
          << <<"e", "u", " ", "(", "l", "o", "n", "d", "o", "n", ")">>,
             <<"e", "u", "-", "w", "e", "s", "t", "-", "2">>,
             <<"e", "u", "w", "2">>,
             <<"l", "o", "n", "d", "o", "n">> >>],
       [region_code |-> <<"e", "u", "-", "w", "e", "s", "t", "-", "3">>,
        aliases |->
          << <<"e", "u", " ", "(", "p", "a", "r", "i", "s", ")">>,
             <<"e", "u", "-", "w", "e", "s", "t", "-", "3">>,
             <<"e", "u", "w", "3">>,
             <<"p", "a", "r", "i", "s">> >>],
       [region_code |-> <<"e", "u", "-", "c", "e", "n", "t", "r", "a", "l", "-", "1">>,
        aliases |->
          << <<"e", "u", " ", "(", "f", "r", "a", "n", "k", "f", "u", "r", "t", ")">>,
             <<"e", "u", "-", "c", "e", "n", "t", "r", "a", "l", "-", "1">>,
             <<"e", "u", "c", "1">>,
             <<"f", "r", "a", "n", "k", "f", "u", "r", "t">> >>],
       [region_code |-> <<"a", "p", "-", "s", "o", "u", "t", "h", "-", "1">>,
        aliases |->
          << <<"a", "s", "i", "a", " ", "p", "a", "c", "i", "f", "i", "c", " ", "(", "m", "u", "m", "b", "a", "i", ")">>,
             <<"a", "p", "-", "s", "o", "u", "t", "h", "-", "1">>,
             <<"a", "p", "s", "1">>,
             <<"m", "u", "m", "b", "a", "i">> >>],
       [region_code |-> <<"a", "p", "-", "s", "o", "u", "t", "h", "e", "a", "s", "t", "-", "1">>,
        aliases |->
          << <<"a", "s", "i", "a", " ", "p", "a", "c", "i", "f", "i", "c", " ", "(", "s", "i", "n", "g", "a", "p", "o", "r", "e", ")">>,
             <<"a", "p", "-", "s", "o", "u", "t", "h", "e", "a", "s", "t", "-", "1">>,
             <<"a", "p", "s", "e", "1">>,
             <<"s", "i", "n", "g", "a", "p", "o", "r", "e">> >>],
       [region_code |-> <<"a", "p", "-", "s", "o", "u", "t", "h", "e", "a", "s", "t", "-", "2">>,
        aliases |->
          << <<"a", "s", "i", "a", " ", "p", "a", "c", "i", "f", "i", "c", " ", "(", "s", "y", "d", "n", "e", "y", ")">>,
             <<"a", "p", "-", "s", "o", "u", "t", "h", "e", "a", "s", "t", "-", "2">>,
             <<"a", "p", "s", "e", "2">>,
             <<"s", "y", "d", "n", "e", "y">> >>],
       [region_code |-> <<"a", "p", "-", "n", "o", "r", "t", "h", "e", "a", "s", "t", "-", "1">>,
        aliases |->
          << <<"a", "s", "i", "a", " ", "p", "a", "c", "i", "f", "i", "c", " ", "(", "t", "o", "k", "y", "o", ")">>,
             <<"a", "p", "-", "n", "o", "r", "t", "h", "e", "a", "s", "t", "-", "1">>,
             <<"a", "p", "n", "e", "1">>,
             <<"t", "o", "k", "y", "o">> >>],
       [region_code |-> <<"a", "p", "-", "n", "o", "r", "t", "h", "e", "a", "s", "t", "-", "2">>,
        aliases |->
          << <<"a", "s", "i", "a", " ", "p", "a", "c", "i", "f", "i", "c", " ", "(", "s", "e", "o", "u", "l", ")">>,
             <<"a", "p", "-", "n", "o", "r", "t", "h", "e", "a", "s", "t", "-", "2">>,
             <<"a", "p", "n", "e", "2">>,
             <<"s", "e", "o", "u", "l">> >>],
       [region_code |-> <<"c", "a", "-", "c", "e", "n", "t", "r", "a", "l", "-", "1">>,
        aliases |->
          << <<"c", "a", "n", "a", "d", "a", " ", "(", "c", "e", "n", "t", "r", "a", "l", ")">>,
             <<"c", "a", "-", "c", "e", "n", "t", "r", "a", "l", "-", "1">>,
             <<"c", "a", "c", "1">>,
             <<"c", "a", "n", "a", "d", "a">> >>],
       [region_code |-> <<"s", "a", "-", "e", "a", "s", "t", "-", "1">>,
        aliases |->
          << <<"s", "o", "u", "t", "h", " ", "a", "m", "e", "r", "i", "c", "a", " ", "(", "s", "<U+221A>", "<U+00A3>", "o", " ", "p", "a", "u", "l", "o", ")">>,
             <<"s", "a", "-", "e", "a", "s", "t", "-", "1">>,
             <<"s", "a", "e", "1">>,
             <<"s", "<U+221A>", "<U+00A3>", "o", " ", "p", "a", "u", "l", "o">> >>],
       [region_code |-> <<"g", "l", "o", "b", "a", "l">>,
        aliases |->
          << <<"g", "l", "o", "b", "a", "l">>,
             <<"w", "o", "r", "l", "d", "w", "i", "d", "e">>,
             <<"a", "l", "l", " ", "r", "e", "g", "i", "o", "n", "s">>,
             <<"c", "l", "o", "u", "d", "f", "r", "o", "n", "t", " ", "g", "l", "o", "b", "a", "l">> >>]
    >>

\* the patterns of extract_usage_quantity_and_unit: ([\d,]+\.?\d*)\s+(unit)\b,
\* the unit one of base, or of base followed by an optional s when plural
AnalyzerUsagePatterns ==
    << [base |-> << <<"h", "o", "u", "r">>, <<"h", "r">> >>, plural |-> TRUE],
       [base |-> << <<"g", "b", "-", "m", "o">>, <<"g", "b", "-", "m", "o", "n", "t", "h">> >>, plural |-> FALSE],
       [base |-> << <<"r", "e", "q", "u", "e", "s", "t">> >>, plural |-> TRUE],
       [base |-> << <<"g", "b">>, <<"t", "b">>, <<"m", "b">> >>, plural |-> FALSE],
       [base |-> << <<"i", "n", "s", "t", "a", "n", "c", "e">> >>, plural |-> TRUE],
       [base |-> << <<"v", "c", "p", "u", "-", "h", "o", "u", "r">> >>, plural |-> TRUE],
       [base |-> << <<"m", "e", "s", "s", "a", "g", "e">> >>, plural |-> TRUE],
       [base |-> << <<"q", "u", "e", "r", "i", "e">> >>, plural |-> TRUE],
       [base |-> << <<"e", "v", "e", "n", "t">> >>, plural |-> TRUE],
       [base |-> << <<"n", "o", "t", "i", "f", "i", "c", "a", "t", "i", "o", "n">> >>, plural |-> TRUE] >>

\* the patterns of ForensicAWSExtractor._extract_usage, in the same form
ForensicUsagePatterns ==
    << [base |-> << <<"h", "o", "u", "r">>, <<"h", "r">> >>, plural |-> TRUE],
       [base |-> << <<"g", "b", "-", "m", "o">>, <<"g", "b", "-", "m", "o", "n", "t", "h">> >>, plural |-> FALSE],
       [base |-> << <<"r", "e", "q", "u", "e", "s", "t">> >>, plural |-> TRUE],
       [base |-> << <<"g", "b">>, <<"t", "b">>, <<"m", "b">> >>, plural |-> FALSE],
       [base |-> << <<"u", "n", "i", "t">> >>, plural |-> TRUE],
       [base |-> << <<"d", "a", "s", "h", "b", "o", "a", "r", "d">> >>, plural |-> TRUE],
       [base |-> << <<"a", "l", "a", "r", "m">> >>, plural |-> TRUE],
       [base |-> << <<"v", "c", "p", "u", "-", "h", "o", "u", "r">> >>, plural |-> TRUE] >>

\* the aliases of an entry of the region table, lowered (pattern.lower())
LoweredRegion(entry) ==
    [region_code |-> entry.region_code,
     aliases |-> [j \in 1..Len(entry.aliases) |-> LowerLine(entry.aliases[j])]]

\* self.region_patterns as extract_region reads it
LoweredRegions == [k \in 1..Len(RegionPatterns) |-> LoweredRegion(RegionPatterns[k])]

\* 'unknown'
UnknownRegion == <<"u", "n", "k", "n", "o", "w", "n">>

\* one of the aliases of the entry occurs in the lowered line
RegionNamed(line_lower, entry) ==
    \E j \in 1..Len(entry.aliases) : Contains(line_lower, entry.aliases[j])

RECURSIVE FirstRegion(_, _)
\* the loops of extract_region: the code of the first entry with an alias
\* on the line, 'unknown' when there is none
FirstRegion(line_lower, regions) ==
    IF regions = << >> THEN UnknownRegion
    ELSE IF RegionNamed(line_lower, Head(regions)) THEN Head(regions).region_code
    ELSE FirstRegion(line_lower, Tail(regions))

\* AWSServiceAnalyzer.extract_region
ExtractRegion(line) == FirstRegion(LowerLine(line), LoweredRegions)

\* the literals of ForensicAWSExtractor._extract_region, each the start of a
\* pattern  (literal[^)]+\)) , in the order of the list
ForensicRegionNames ==
    << <<"a", "s", "i", "a", " ", "p", "a", "c", "i", "f", "i", "c", " ", "(">>,
       <<"u", "s", " ", "e", "a", "s", "t", " ", "(">>,
       <<"u", "s", " ", "w", "e", "s", "t", " ", "(">>,
       <<"e", "u", " ", "(">>,
       <<"c", "a", "n", "a", "d", "a", " ", "(">>,
       <<"s", "o", "u", "t", "h", " ", "a", "m", "e", "r", "i", "c", "a", " ", "(">> >>

\* where the match of  name[^)]+\)  that starts at i ends, or 0: the first
\* ")" after the name, at least one character after it
RegionNameEnd(line, i, name) ==
    IF ~LiteralAt(line, i, name) THEN 0
    ELSE LET from == i + Len(name)
             close == RunEnd(line, from, {line[k] : k \in 1..Len(line)} \ {")"})
         IN IF close > from /\ close <= Len(line) THEN close ELSE 0

\* re.search of one region pattern: group(1) of the leftmost match
SearchRegionName(line, name) ==
    CHOOSE m \in
       {IF starts = {} THEN NoMatch
        ELSE CHOOSE r \in
               {[found |-> TRUE, group |-> SubSeq(line, i, RegionNameEnd(line, i, name))] :
                   i \in {x \in starts : \A y \in starts : x <= y}} : TRUE
          : starts \in {{i \in 1..Len(line) : RegionNameEnd(line, i, name) # 0}}} : TRUE

RECURSIVE FirstRegionName(_, _)
\* the patterns tried in order; then `if 'Any' in line`; then 'Global'
FirstRegionName(line, names) ==
    IF names = << >>
    THEN IF Contains(line, <<"A", "n", "y">>) THEN <<"A", "n", "y">>
         ELSE <<"G", "l", "o", "b", "a", "l">>
    ELSE CHOOSE r \in
           {IF m.found THEN m.group ELSE FirstRegionName(line, Tail(names))
              : m \in {SearchRegionName(line, Head(names))}} : TRUE

ForensicExtractRegion(line) == FirstRegionName(line, ForensicRegionNames)

\* \w
WordChars ==
    {UpperLetters[k] : k \in 1..26} \cup {LowerLetters[k] : k \in 1..26}
        \cup DigitChars \cup {"_"}

\* word followed by \b stands at position u, case ignored
WordAt(line, u, word) ==
    /\ LiteralAt(line, u, word)
    /\ u + Len(word) > Len(line) \/ line[u + Len(word)] \notin WordChars

\* the length of what (base1|base2...) or (base1s?|base2s?...) followed by \b
\* matches at position u, or 0: the alternatives in order, the s taken when
\* it can be
UnitLength(line, u, p) ==
    CHOOSE n \in
       {IF alts = {} THEN 0
        ELSE CHOOSE r \in
               {IF p.plural /\ WordAt(line, u, Append(p.base[k], "s"))
                THEN Len(p.base[k]) + 1 ELSE Len(p.base[k])
                  : k \in {x \in alts : \A y \in alts : x <= y}} : TRUE
          : alts \in {{k \in 1..Len(p.base) :
                         \/ p.plural /\ WordAt(line, u, Append(p.base[k], "s"))
                         \/ WordAt(line, u, p.base[k])}}} : TRUE

UnitStart(line, i, p) ==
    CHOOSE s \in
       {IF e > i /\ u > e /\ UnitLength(line, u, p) > 0 THEN u ELSE 0
          : <<e, u>> \in {<<GroupEnd(line, i), RunEnd(line, GroupEnd(line, i), SpaceChars)>>}}
       : TRUE

NoUsage == [found |-> FALSE, quantity |-> << >>, unit |-> << >>]

\* re.search(p, line, re.IGNORECASE) for a usage pattern: group(1) and
\* group(2) of the leftmost match
SearchUsage(line, p) ==
    CHOOSE m \in
       {IF starts = {} THEN NoUsage
        ELSE CHOOSE r \in
               {[found |-> TRUE,
                 quantity |-> SubSeq(line, i, GroupEnd(line, i) - 1),
                 unit |-> SubSeq(line, u, u + UnitLength(line, u, p) - 1)]
                  : <<i, u>> \in {<<x, UnitStart(line, x, p)>> :
                                    x \in {x \in starts : \A y \in starts : x <= y}}} : TRUE
          : starts \in {{i \in 1..Len(line) : UnitStart(line, i, p) # 0}}} : TRUE

UsageOf(m) == [none |-> FALSE, quantity |-> DecimalValue(WithoutCommas(m.quantity)),
               unit |-> m.unit]

\* float(str) raises ValueError, which both extractors catch: the pattern is
\* passed over
UsageParses(m) == m.found /\ ~InvalidDecimal(WithoutCommas(m.quantity))

RECURSIVE FirstUsage(_, _, _)
\* the loop over the usage patterns: the first that matches and parses
FirstUsage(line, patterns, default) ==
    IF patterns = << >> THEN default
    ELSE CHOOSE r \in
           {IF UsageParses(m) THEN UsageOf(m) ELSE FirstUsage(line, Tail(patterns), default)
              : m \in {SearchUsage(line, Head(patterns))}} : TRUE

AnalyzerNoUsage ==
    [none |-> TRUE, quantity |-> 0, unit |-> <<"u", "n", "k", "n", "o", "w", "n">>]

\* `return 1.0, 'Units'`
ForensicDefaultUsage ==
    [none |-> FALSE, quantity |-> 10000, unit |-> <<"U", "n", "i", "t", "s">>]

\* match.group(2).lower()
LoweredUnit(usage) == [usage EXCEPT !.unit = LowerLine(usage.unit)]

\* AWSServiceAnalyzer.extract_usage_quantity_and_unit
ExtractUsageQuantityAndUnit(line) ==
    LoweredUnit(FirstUsage(line, AnalyzerUsagePatterns, AnalyzerNoUsage))

\* ForensicAWSExtractor._extract_usage
ForensicExtractUsage(line) ==
    FirstUsage(line, ForensicUsagePatterns, ForensicDefaultUsage)

\* `quantity or 0.0`
QuantityOrZero(usage) == IF usage.none \/ usage.quantity = 0 THEN 0 ELSE usage.quantity

----------------------------------------------------------------------------
(* analyze_aws_invoice, aws_service_analyzer.py *)

\* `len(line) < 10`
MinLineLength == 10

\* `confidence < 0.1`, in hundredths
ConfidenceFloor == 10

\* the keys of name_patterns in _extract_service_name
AnalyzerNamedCategories ==
    {"EC2", "RDS", "S3", "Lambda", "CloudFront", "EBS", "VPC", "ElastiCache", "SQS", "SNS", "CloudWatch",
     "Route53", "API_Gateway", "Kinesis", "DynamoDB", "Redshift", "EMR", "Glue", "Athena", "ECS", "EKS"}

\* the pattern `name_patterns.get(category, category.lower())` of the other
\* categories of the catalog: the lowered category, which has no group
AnalyzerBarePatterns ==
    << [category |-> "EFS", pattern |-> <<"e", "f", "s">>],
       [category |-> "Backup", pattern |-> <<"b", "a", "c", "k", "u", "p">>],
       [category |-> "DataTransfer", pattern |-> <<"d", "a", "t", "a", "t", "r", "a", "n", "s", "f", "e", "r">>],
       [category |-> "Marketplace", pattern |-> <<"m", "a", "r", "k", "e", "t", "p", "l", "a", "c", "e">>],
       [category |-> "Other", pattern |-> <<"o", "t", "h", "e", "r">>] >>

\* _extract_service_name raises IndexError: the pattern without group
\* matches the lowered line and match.group(1) is asked for
AnalyzerNameRaises(line, category) ==
    /\ category \notin AnalyzerNamedCategories
    /\ \E k \in 1..Len(AnalyzerBarePatterns) :
          /\ AnalyzerBarePatterns[k].category = category
          /\ Contains(LowerLine(line), AnalyzerBarePatterns[k].pattern)

\* ServiceUsage(...): the category, the cost and the provenance
ServiceUsage(line, category, cost, number, region, usage) ==
    [service_category |-> category,
     region |-> region,
     usage_quantity |-> QuantityOrZero(usage),
     usage_unit |-> usage.unit,
     cost |-> cost,
     raw_line |-> line,
     line_number |-> number]

\* the record analyze_aws_invoice builds for a line it admits
Usage(line, category, cost, number) ==
    ServiceUsage(line, category, cost, number,
                 ExtractRegion(line), ExtractUsageQuantityAndUnit(line))

RECURSIVE CategoriesOf(_)
\* list(services_by_category.keys()): the categories in the order of their
\* first usage
CategoriesOf(usages) ==
    IF usages = << >> THEN << >>
    ELSE LET before == CategoriesOf(SubSeq(usages, 1, Len(usages) - 1))
             last == usages[Len(usages)].service_category
         IN IF \E k \in 1..Len(before) : before[k] = last THEN before
            ELSE Append(before, last)

RECURSIVE UsagesOf(_, _)
\* services_by_category[category]
UsagesOf(usages, category) ==
    IF usages = << >> THEN << >>
    ELSE IF Head(usages).service_category = category
    THEN <<Head(usages)>> \o UsagesOf(Tail(usages), category)
    ELSE UsagesOf(Tail(usages), category)

RECURSIVE CostOf(_)
CostOf(usages) == IF usages = << >> THEN 0 ELSE Head(usages).cost + CostOf(Tail(usages))

\* AWSServiceAnalyzer._group_and_analyze_services
GroupAndAnalyze(usages, total) ==
    LET categories == {usages[k].service_category : k \in 1..Len(usages)}
        totals == [c \in categories |-> CostOf(UsagesOf(usages, c))]
        keys == CategoriesOf(usages)
    IN [returned |-> TRUE,
        total_cost |-> total,
        total_entries |-> Len(usages),
        service_categories |-> keys,
        services_by_category |-> [c \in categories |-> UsagesOf(usages, c)],
        category_totals |-> totals,
        cost_validation |->
           [calculated_total |-> total,
            category_sum |-> SumOver([k \in 1..Len(keys) |-> totals[keys[k]]], Len(keys)),
            validation_passed |-> TRUE]]

----------------------------------------------------------------------------
(* extract_all_costs_forensic, forensic_extractor.py *)

\* text.split('\n')
NewlineAt(text) ==
    CHOOSE j \in 1..(Len(text) + 1) :
        /\ j = Len(text) + 1 \/ text[j] = "\n"
        /\ \A k \in 1..(j - 1) : text[k] # "\n"

RECURSIVE Split(_)
Split(text) ==
    LET j == NewlineAt(text)
    IN IF j > Len(text) THEN <<text>>
       ELSE <<SubSeq(text, 1, j - 1)>> \o Split(SubSeq(text, j + 1, Len(text)))

\* Decimal('3645.60'), the fallback of _find_invoice_total
DefaultInvoiceTotal == 36456000

\* `abs(difference) < 0.01`
ForensicTolerance == 100

\* the labels of the patterns  label \s* USD \s* ([\d,]+\.?\d*)
TotalLabels ==
    << <<"g", "r", "a", "n", "d", " ", "t", "o", "t", "a", "l", ":">>,
       <<"a", "m", "a", "z", "o", "n", " ", "w", "e", "b", " ", "s", "e", "r", "v", "i", "c", "e", "s", " ", "i", "n", "d", "i", "a", " ", "p", "r", "i", "v", "a", "t", "e", " ", "l", "i", "m", "i", "t", "e", "d">>,
       <<"t", "o", "t", "a", "l", " ", "p", "r", "e", "-", "t", "a", "x">> >>

UsdThenAmount == Pattern(<<"u", "s", "d">>, 0, FALSE, "any")

\* where USD stands when the pattern of label is tried at position i
UsdAfterLabel(text, i, label) == RunEnd(text, i + Len(label), SpaceChars)

TotalMatchesAt(text, i, label) ==
    /\ LiteralAt(text, i, label)
    /\ MatchesAt(text, UsdAfterLabel(text, i, label), UsdThenAmount)

\* re.search(pattern, text, re.IGNORECASE) for the pattern of label
SearchTotal(text, label) ==
    LET starts == {i \in 1..Len(text) : TotalMatchesAt(text, i, label)}
    IN IF starts = {} THEN NoMatch
       ELSE LET i == CHOOSE x \in starts : \A y \in starts : x <= y
                g == GroupStart(text, UsdAfterLabel(text, i, label), UsdThenAmount)
            IN [found |-> TRUE, group |-> SubSeq(text, g, GroupEnd(text, g) - 1)]

RECURSIVE FirstParsedTotal(_, _)
FirstParsedTotal(text, labels) ==
    IF labels = << >> THEN DefaultInvoiceTotal
    ELSE LET m == SearchTotal(text, Head(labels))
             str == WithoutCommas(m.group)
         IN IF m.found /\ ~InvalidDecimal(str) THEN DecimalValue(str)
            ELSE FirstParsedTotal(text, Tail(labels))

\* ForensicAWSExtractor._find_invoice_total
FindInvoiceTotal(text) == FirstParsedTotal(text, TotalLabels)

\* ForensicAWSExtractor._categorize_service: the keyword lists in the order
\* of the if/elif chain
ForensicCategories ==
    <<
       [category |-> "EC2",
        keywords |->
          << <<"e", "l", "a", "s", "t", "i", "c", " ", "c", "o", "m", "p", "u", "t", "e", " ", "c", "l", "o", "u", "d">>,
             <<"e", "c", "2">>,
             <<"r", "u", "n", "n", "i", "n", "g", " ", "l", "i", "n", "u", "x">>,
             <<"r", "u", "n", "n", "i", "n", "g", " ", "w", "i", "n", "d", "o", "w", "s">>,
             <<"t", "3", "a", ".">>,
             <<"t", "2", ".">>,
             <<"t", "3", ".">>,
             <<"c", "5", ".">>,
             <<"r", "5", ".">>,
             <<"n", "a", "t", "g", "a", "t", "e", "w", "a", "y">> >>],
       [category |-> "RDS",
        keywords |->
          << <<"r", "e", "l", "a", "t", "i", "o", "n", "a", "l", " ", "d", "a", "t", "a", "b", "a", "s", "e">>,
             <<"r", "d", "s">>,
             <<"m", "a", "r", "i", "a", "d", "b">>,
             <<"m", "y", "s", "q", "l">>,
             <<"b", "a", "c", "k", "u", "p", " ", "s", "t", "o", "r", "a", "g", "e">> >>],
       [category |-> "S3",
        keywords |->
          << <<"s", "i", "m", "p", "l", "e", " ", "s", "t", "o", "r", "a", "g", "e", " ", "s", "e", "r", "v", "i", "c", "e">>,
             <<"s", "3">>,
             <<"r", "e", "q", "u", "e", "s", "t", "s", "-", "t", "i", "e", "r">>,
             <<"t", "i", "m", "e", "d", "s", "t", "o", "r", "a", "g", "e">> >>],
       [category |-> "EFS",
        keywords |->
          << <<"e", "l", "a", "s", "t", "i", "c", " ", "f", "i", "l", "e", " ", "s", "y", "s", "t", "e", "m">>,
             <<"e", "f", "s">> >>],
       [category |-> "CloudWatch",
        keywords |->
          << <<"c", "l", "o", "u", "d", "w", "a", "t", "c", "h">>,
             <<"p", "u", "t", "l", "o", "g", "e", "v", "e", "n", "t", "s">>,
             <<"d", "a", "s", "h", "b", "o", "a", "r", "d", "h", "o", "u", "r">> >>],
       [category |-> "DataTransfer",
        keywords |->
          << <<"d", "a", "t", "a", " ", "t", "r", "a", "n", "s", "f", "e", "r">>,
             <<"a", "w", "s", " ", "d", "a", "t", "a", " ", "t", "r", "a", "n", "s", "f", "e", "r">> >>],
       [category |-> "Backup",
        keywords |->
          << <<"a", "w", "s", " ", "b", "a", "c", "k", "u", "p">>,
             <<"b", "a", "c", "k", "u", "p", " ", "s", "t", "o", "r", "a", "g", "e">> >>],
       [category |-> "Marketplace",
        keywords |->
          << <<"m", "a", "r", "k", "e", "t", "p", "l", "a", "c", "e">>,
             <<"c", "l", "a", "u", "d", "e">>,
             <<"b", "e", "d", "r", "o", "c", "k">> >>],
       [category |-> "EBS",
        keywords |->
          << <<"e", "b", "s">>,
             <<"e", "l", "a", "s", "t", "i", "c", " ", "b", "l", "o", "c", "k", " ", "s", "t", "o", "r", "e">>,
             <<"s", "n", "a", "p", "s", "h", "o", "t">> >>]
    >>

\* as ForensicCategorize, the last of the matching lists deciding
ForensicCategorizeLast(line) ==
    LET hits == {k \in 1..Len(ForensicCategories) :
                    \E j \in 1..Len(ForensicCategories[k].keywords) :
                        Contains(LowerLine(line), ForensicCategories[k].keywords[j])}
    IN IF hits = {} THEN "Other"
       ELSE ForensicCategories[CHOOSE k \in hits : \A j \in hits : j <= k].category

\* ForensicAWSExtractor._categorize_service
ForensicCategorize(line) ==
    LET hits == {k \in 1..Len(ForensicCategories) :
                    \E j \in 1..Len(ForensicCategories[k].keywords) :
                        Contains(LowerLine(line), ForensicCategories[k].keywords[j])}
    IN IF hits = {} THEN "Other"
       ELSE ForensicCategories[CHOOSE k \in hits : \A j \in hits : k <= j].category

\* the keys of service_patterns in _extract_service_name: the categories
\* whose pattern has a group
ForensicNamedCategories == {"EC2", "RDS", "S3", "EFS", "CloudWatch", "DataTransfer", "Backup", "Marketplace"}

\* the pattern `service_patterns.get(category, category)` of the other ones:
\* the category itself, which has no group
ForensicBarePatterns ==
    << [category |-> "EBS", pattern |-> <<"e", "b", "s">>],
       [category |-> "Other", pattern |-> <<"o", "t", "h", "e", "r">>] >>

\* _extract_service_name raises IndexError: the pattern without group
\* matches (case ignored) and match.group(1) is asked for
ForensicNameRaises(line, category) ==
    /\ category \notin ForensicNamedCategories
    /\ \E k \in 1..Len(ForensicBarePatterns) :
          /\ ForensicBarePatterns[k].category = category
          /\ Contains(LowerLine(line), ForensicBarePatterns[k].pattern)

\* _create_service_item raises: the exception `except Exception` of the
\* caller's loop catches, or "none"
CreateServiceItemError(line) ==
    IF ForensicNameRaises(line, ForensicCategorize(line)) THEN "IndexError" ELSE "none"

\* as CreateServiceItem, lines counted from 0
CreateServiceItemZeroBased(line, cost, number) ==
    CHOOSE item \in
       {[service_category |-> ForensicCategorize(line),
         region |-> ForensicExtractRegion(line),
         usage_quantity |-> usage.quantity,
         usage_unit |-> usage.unit,
         cost_usd |-> cost,
         line_text |-> SubSeq(line, 1, IF Len(line) < 100 THEN Len(line) ELSE 100),
         line_number |-> number - 1]
          : usage \in {ForensicExtractUsage(line)}} : TRUE

CreateServiceItem(line, cost, number) ==
    CHOOSE item \in
       {[service_category |-> ForensicCategorize(line),
         region |-> ForensicExtractRegion(line),
         usage_quantity |-> usage.quantity,
         usage_unit |-> usage.unit,
         cost_usd |-> cost,
         line_text |-> SubSeq(line, 1, IF Len(line) < 100 THEN Len(line) ELSE 100),
         line_number |-> number]
          : usage \in {ForensicExtractUsage(line)}} : TRUE

ForensicAnalysisReversed(items, total, extracted) ==
    [returned |-> TRUE,
     total_invoice_amount |-> total,
     total_line_items |-> Len(items),
     service_line_items |-> items,
     cost_validation |->
        [calculated_total |-> extracted,
         invoice_total |-> total,
         difference |-> extracted - total,
         validation_passed |-> Abs(extracted - total) < ForensicTolerance]]

\* the analysis extract_all_costs_forensic returns
ForensicAnalysis(items, total, extracted) ==
    [returned |-> TRUE,
     total_invoice_amount |-> total,
     total_line_items |-> Len(items),
     service_line_items |-> items,
     cost_validation |->
        [calculated_total |-> extracted,
         invoice_total |-> total,
         difference |-> total - extracted,
         validation_passed |-> Abs(total - extracted) < ForensicTolerance]]

NoForensicAnalysis ==
    [returned |-> FALSE,
     total_invoice_amount |-> 0,
     total_line_items |-> 0,
     service_line_items |-> << >>,
     cost_validation |->
        [calculated_total |-> 0, invoice_total |-> 0, difference |-> 0,
         validation_passed |-> FALSE]]

\* analyze_aws_invoice has not returned
NoAnalysisResult ==
    [returned |-> FALSE,
     total_cost |-> 0,
     total_entries |-> 0,
     service_categories |-> << >>,
     services_by_category |-> << >>,
     category_totals |-> << >>,
     cost_validation |->
        [calculated_total |-> 0, category_sum |-> 0, validation_passed |-> FALSE]]

\* categorize_service has not been called
NoCategory == [category |-> "<none>", confidence |-> 0, category_scores |-> << >>]

\* no text extractor has been called
NoTextRun ==
    /\ pdf_text = << >>
    /\ line_num = 0
    /\ found_total = 0
    /\ service_items = << >>
    /\ total_extracted = 0
    /\ forensic_analysis = NoForensicAnalysis
    /\ extracted_cost = NoCost
    /\ service_usages = << >>
    /\ total_cost = 0
    /\ analysis_result = NoAnalysisResult
    /\ categorized = NoCategory

----------------------------------------------------------------------------
(* The answers of the two LLM calls, drawn from bounded sets *)

SeqsUpTo(S, n) == UNION {[1..k -> S] : k \in 0..n}

\* line items of a first-pass answer: 3600.00, 45.60, 44.60, 0.00 and a
\* credit of -5.00; an item with a non-numeric cost; a non-numeric quantity;
\* a value that is no object
FirstPassItems ==
    {Item("object", "text", Num(10000), Num(c), Num(1), NoKey) :
        c \in {36000000, 456000}}
    \cup {Item("object", NoKey, Absent, Num(c), Absent, NoKey) :
        c \in {446000, 0, -50000}}
    \cup {Item("object", NoKey, Absent, Str, Absent, NoKey),
          Item("string", NoKey, Absent, Absent, Absent, NoKey)}

\* cost_validation objects of a first-pass answer
FirstPassValidations ==
    {[calculated_total |-> Num(0), invoice_total |-> Num(PromptInvoiceTotal),
      difference |-> Num(0), validation_passed |-> "true"],
     [calculated_total |-> Num(0), invoice_total |-> Num(PromptInvoiceTotal),
      difference |-> Num(456000), validation_passed |-> "true"],
     [calculated_total |-> Num(0), invoice_total |-> Null,
      difference |-> Num(0), validation_passed |-> "false"]}

\* the dictionaries json.loads can give extract_comprehensive_aws_data
FirstPassAnswers ==
    {[truthy |-> TRUE, has_items |-> TRUE, service_line_items |-> items,
      total_invoice_amount |-> total, has_cv |-> TRUE, cost_validation |-> cv] :
        items \in SeqsUpTo(FirstPassItems, MaxItems),
        total \in {Absent, Num(PromptInvoiceTotal), Str},
        cv \in FirstPassValidations}
    \cup
    {[truthy |-> TRUE, has_items |-> TRUE, service_line_items |-> items,
      total_invoice_amount |-> total, has_cv |-> FALSE,
      cost_validation |-> NoCostValidation] :
        items \in SeqsUpTo(FirstPassItems, MaxItems),
        total \in {Absent, Num(PromptInvoiceTotal), Str}}
    \cup
    {[truthy |-> TRUE, has_items |-> FALSE, service_line_items |-> << >>,
      total_invoice_amount |-> Num(PromptInvoiceTotal), has_cv |-> TRUE,
      cost_validation |-> cv] : cv \in FirstPassValidations}

\* candidates of a reconciliation answer: 45.60 and 45.595 well formed, a
\* credit of -5.00, an object without cost_usd, a non-numeric cost, a value
\* that is no object
Candidates ==
    {Item("object", "text", Num(10000), Num(c), Absent, "missed") :
        c \in {456000, 455950, -50000}}
    \cup {Item("object", "text", Num(10000), Absent, Absent, "missed"),
          Item("object", "text", Num(10000), Str, Absent, "missed"),
          Item("string", NoKey, Absent, Absent, Absent, NoKey)}

OracleReplies ==
    {Reply(kind, << >>) : kind \in {"raises", "nocontent", "unparsable", "nonobject"}}
    \cup {Reply("json", c) : c \in SeqsUpTo(Candidates, MaxCandidates)}

----------------------------------------------------------------------------
(* process_comprehensive_aws_analysis, app.py *)

Init ==
    /\ pc = "extract"
    /\ clientOk \in BOOLEAN
    /\ analysis = EmptyAnalysis
    /\ raised = "none"
    /\ oracleCalls = 0
    /\ oracleReply = NoReply
    /\ passes = 0
    /\ result = "pending"
    /\ NoTextRun

\* extract_comprehensive_aws_data and the `if not analysis_data` of the caller
Extract ==
    /\ pc = "extract"
    /\ \E answer \in FirstPassAnswers \cup {EmptyAnalysis} :
          analysis' = IF clientOk THEN answer ELSE EmptyAnalysis
    /\ pc' = IF analysis'.truthy THEN "validate" ELSE "done"
    /\ result' = IF analysis'.truthy THEN "pending" ELSE "error"
    /\ UNCHANGED <<clientOk, raised, oracleCalls, oracleReply, passes>>
    /\ UNCHANGED textVars

\* enhanced_analysis = validate_and_enhance_analysis(analysis_data)
Validate ==
    /\ pc = "validate"
    /\ IF ValidateError(analysis) # "none"
       THEN /\ raised' = ValidateError(analysis)
            /\ result' = "error"
            /\ pc' = "done"
            /\ UNCHANGED analysis
       ELSE /\ analysis' = Validated(analysis)
            /\ pc' = "gate"
            /\ UNCHANGED <<raised, result>>
    /\ UNCHANGED <<clientOk, oracleCalls, oracleReply, passes>>
    /\ UNCHANGED textVars

\* difference = abs(cost_validation.get('difference', 0.0))
AppDifference(an) ==
    IF an.has_cv THEN Abs(GetOrZero(an.cost_validation.difference).v) ELSE 0

\* `if difference > 1.0`
AppReconciles(difference) == difference > AppReconcileGate

Gate ==
    /\ pc = "gate"
    /\ pc' = IF AppReconciles(AppDifference(analysis)) THEN "reconcile" ELSE "report"
    /\ UNCHANGED <<clientOk, analysis, raised, oracleCalls, oracleReply, passes, result>>
    /\ UNCHANGED textVars

\* one call of reconcile_missing_costs, the oracle answering `reply` if asked
ReconcileCall(reply) ==
    /\ passes' = passes + 1
    /\ IF clientOk /\ ReconcileError(analysis) # "none"
       THEN /\ raised' = ReconcileError(analysis)
            /\ UNCHANGED <<analysis, oracleCalls, oracleReply>>
       ELSE /\ raised' = raised
            /\ analysis' = Reconciled(clientOk, analysis, reply)
            /\ IF OracleAsked(clientOk, analysis)
               THEN /\ oracleCalls' = oracleCalls + RequestsMade(reply)
                    /\ oracleReply' = reply
               ELSE UNCHANGED <<oracleCalls, oracleReply>>

Reconcile ==
    /\ pc = "reconcile"
    /\ \E reply \in OracleReplies : ReconcileCall(reply)
    /\ pc' = IF raised' = "none" THEN "report" ELSE "done"
    /\ result' = IF raised' = "none" THEN "pending" ELSE "error"
    /\ UNCHANGED clientOk
    /\ UNCHANGED textVars

\* the report is written and result['analysis_data'] = enhanced_analysis
Report ==
    /\ pc = "report"
    /\ pc' = "done"
    /\ result' = "success"
    /\ UNCHANGED <<clientOk, analysis, raised, oracleCalls, oracleReply, passes>>
    /\ UNCHANGED textVars

Next == Extract \/ Validate \/ Gate \/ Reconcile \/ Report

Spec == Init /\ [][Next]_vars

----------------------------------------------------------------------------
(* reconcile_missing_costs called directly on a validated analysis, up to  *)
(* MaxPasses times, the oracle answering every request the same way        *)

\* what validate_and_enhance_analysis returns for the first-pass answers
ValidatedAnalyses ==
    {Validated(a) : a \in {b \in FirstPassAnswers : ValidateError(b) = "none"}}

InitDirect ==
    /\ pc = "direct"
    /\ clientOk \in BOOLEAN
    /\ analysis \in ValidatedAnalyses
    /\ raised = "none"
    /\ oracleCalls = 0
    /\ oracleReply = NoReply
    /\ passes = 0
    /\ result = "pending"
    /\ NoTextRun

DirectReconcile ==
    /\ pc = "direct"
    /\ passes < MaxPasses
    /\ raised = "none"
    /\ \E reply \in OracleReplies :
          /\ oracleCalls > 0 => reply = oracleReply
          /\ ReconcileCall(reply)
    /\ UNCHANGED <<pc, clientOk, result>>
    /\ UNCHANGED textVars

NextDirect == DirectReconcile

SpecDirect == InitDirect /\ [][NextDirect]_vars

----------------------------------------------------------------------------
(* The text extractors called on the text of a PDF *)

MaxLines == 2

\* lines of an invoice: charges, a free-tier line, credits, the grand total,
\* a blank line, an amount before its currency, an amount of commas only,
\* a line without amount, a line of five characters, a line whose category
\* has no name pattern in either extractor, a line naming two regions and
\* two usage quantities
InvoiceLines ==
    { <<"E", "C", "2", " ", "U", "S", "D", " ", "1", "2", ".", "5", "0">>,
      <<"S", "3", " ", "s", "t", "o", "r", "a", "g", "e", " ", "$", "0", ".", "0", "0">>,
      <<"C", "r", "e", "d", "i", "t", " ", "-", "$", "5", ".", "0", "0">>,
      <<"C", "r", "e", "d", "i", "t", " ", "U", "S", "D", " ", "-", "5", ".", "0", "0">>,
      <<"G", "r", "a", "n", "d", " ", "t", "o", "t", "a", "l", ":", " ", "U", "S", "D", " ", "1", "7", ".", "5", "0">>,
      <<>>,
      <<" ", " ", "T", "a", "x", " ", "1", ",", "2", "5", "0", ".", "5", " ", "U", "S", "D", " ">>,
      <<"C", "o", "s", "t", ":", " ", "$", ",">>,
      <<"R", "D", "S", " ", "d", "b", ".", "t", "3">>,
      <<"U", "S", "D", " ", "5">>,
      <<"E", "B", "S", " ", "g", "p", "3", " ", "v", "o", "l", "u", "m", "e", " ", "U", "S", "D", " ", "5", ".", "0", "0">>,
      <<"E", "F", "S", " ", "f", "i", "l", "e", " ", "s", "y", "s", "t", "e", "m", " ", "U", "S", "D", " ", "1", "2", ".", "5", "0">>,
      <<"E", "C", "2", " ", "O", "h", "i", "o", " ", "V", "i", "r", "g", "i", "n", "i", "a", " ", "2", " ", "G", "B", " ", "5", " ", "H", "o", "u", "r", "s", " ", "U", "S", "D", " ", "3", ".", "0", "0">> }

\* lines handed to extract_cost and categorize_service alone: the lines
\* above, tied categories, a score above 10, two amounts on one line, an
\* unparsable amount before a parsable one, digits without any currency
SampleLines ==
    InvoiceLines \cup
    { <<"s", "n", "a", "p", "s", "h", "o", "t", " ", "U", "S", "D", " ", "1", ".", "0", "0">>,
      <<"E", "l", "a", "s", "t", "i", "c", " ", "C", "o", "m", "p", "u", "t", "e", " ", "C", "l", "o", "u", "d", " ", "i", "n", "s", "t", "a", "n", "c", "e", " ", "c", "o", "m", "p", "u", "t", "e", " ", "h", "o", "u", "r", "s", " ", "U", "S", "D", " ", "3", ".", "0", "0">>,
      <<"T", "o", "t", "a", "l", ":", " ", "$", "9", ".", "0", "0", " ", "U", "S", "D", " ", "7", ".", "0", "0">>,
      <<"C", "o", "s", "t", ":", " ", "$", ",", " ", "t", "o", "t", "a", "l", " ", "5", " ", "U", "S", "D">>,
      <<"A", "m", "o", "u", "n", "t", " ", "i", "n", " ", "U", "S", "D", " ", "5", " ", "U", "S", "D", " ", ",">>,
      <<"p", "l", "a", "i", "n", " ", "7", ".", "0", "0", " ", "d", "o", "l", "l", "a", "r", "s">>,
      <<"O", "t", "h", "e", "r", " ", "s", "u", "p", "p", "o", "r", "t", " ", "U", "S", "D", " ", "3", ".", "0", "0">>,
      <<"D", "a", "t", "a", " ", "t", "r", "a", "n", "s", "f", "e", "r", " ", "5", " ", "G", "B", " ", "U", "S", "D", " ", "0", ".", "4", "5">> }

RECURSIVE Join(_)
\* the lines of a text, a newline between two of them
Join(lines) ==
    IF lines = << >> THEN << >>
    ELSE IF Len(lines) = 1 THEN lines[1]
    ELSE lines[1] \o <<"\n">> \o Join(Tail(lines))

Texts == {Join(lines) : lines \in SeqsUpTo(InvoiceLines, MaxLines)}

InitText ==
    /\ \/ pc \in {"forensic", "analyze"} /\ pdf_text \in Texts
       \/ /\ pc \in {"extract_cost", "extract_cost_from_line", "categorize"}
          /\ pdf_text \in SampleLines
    /\ line_num = 0
    /\ found_total = 0
    /\ service_items = << >>
    /\ total_extracted = 0
    /\ forensic_analysis = NoForensicAnalysis
    /\ extracted_cost = NoCost
    /\ service_usages = << >>
    /\ total_cost = 0
    /\ analysis_result = NoAnalysisResult
    /\ categorized = NoCategory
    /\ clientOk = FALSE
    /\ analysis = EmptyAnalysis
    /\ raised = "none"
    /\ oracleCalls = 0
    /\ oracleReply = NoReply
    /\ passes = 0
    /\ result = "pending"

\* extract_all_costs_forensic that keeps the items of the call before
ForensicStartKeepsItems ==
    /\ pc = "forensic"
    /\ found_total' = FindInvoiceTotal(pdf_text)
    /\ line_num' = 0
    /\ pc' = "forensic_lines"
    /\ UNCHANGED <<pdf_text, service_items, total_extracted, forensic_analysis,
                   analyzerVars, callVars>>
    /\ UNCHANGED llmVars

\* extract_all_costs_forensic up to its loop
ForensicStart ==
    /\ pc = "forensic"
    /\ found_total' = FindInvoiceTotal(pdf_text)
    /\ service_items' = << >>
    /\ total_extracted' = 0
    /\ line_num' = 0
    /\ pc' = "forensic_lines"
    /\ UNCHANGED <<pdf_text, forensic_analysis, analyzerVars, callVars>>
    /\ UNCHANGED llmVars

\* one round of `for line_num, line in enumerate(lines, 1)`
ForensicLine ==
    /\ pc = "forensic_lines"
    /\ line_num < Len(Split(pdf_text))
    /\ line_num' = line_num + 1
    /\ \E line \in {Strip(Split(pdf_text)[line_num + 1])} :
       \E cost \in {ExtractCostFromLine(line)} :
          IF line # << >> /\ cost.raised # "none"
          THEN /\ raised' = cost.raised
               /\ pc' = "forensic_raised"
               /\ UNCHANGED <<service_items, total_extracted>>
          ELSE IF line # << >> /\ cost.found /\ CreateServiceItemError(line) = "none"
          THEN /\ service_items' =
                     Append(service_items, CreateServiceItem(line, cost.value, line_num + 1))
               /\ total_extracted' = total_extracted + cost.value
               /\ UNCHANGED <<pc, raised>>
          ELSE UNCHANGED <<pc, raised, service_items, total_extracted>>
    /\ UNCHANGED <<pdf_text, found_total, forensic_analysis, analyzerVars, callVars>>
    /\ UNCHANGED <<clientOk, analysis, oracleCalls, oracleReply, passes, result>>

\* extract_all_costs_forensic after its loop
ForensicFinish ==
    /\ pc = "forensic_lines"
    /\ line_num = Len(Split(pdf_text))
    /\ forensic_analysis' = ForensicAnalysis(service_items, found_total, total_extracted)
    /\ pc' = "forensic_done"
    /\ UNCHANGED <<pdf_text, line_num, found_total, service_items, total_extracted,
                   analyzerVars, callVars>>
    /\ UNCHANGED llmVars

\* extract_cost called on a line of the text
ExtractCostCall ==
    /\ pc = "extract_cost"
    /\ \E lines \in {Split(pdf_text)} :
       \E k \in 1..Len(lines) :
          /\ line_num' = k
          /\ extracted_cost' = ExtractCost(lines[k])
    /\ UNCHANGED <<pc, pdf_text, forensicVars, analyzerVars, categorized>>
    /\ UNCHANGED llmVars

\* analyze_aws_invoice up to its loop
AnalyzeStart ==
    /\ pc = "analyze"
    /\ service_usages' = << >>
    /\ total_cost' = 0
    /\ line_num' = 0
    /\ pc' = "analyze_lines"
    /\ UNCHANGED <<pdf_text, analysis_result, forensicVars, callVars>>
    /\ UNCHANGED llmVars

\* one round of `for line_num, line in enumerate(lines, 1)`; an exception
\* of _extract_service_name ends analyze_aws_invoice
AnalyzeLine ==
    /\ pc = "analyze_lines"
    /\ line_num < Len(Split(pdf_text))
    /\ line_num' = line_num + 1
    /\ \E line \in {Strip(Split(pdf_text)[line_num + 1])} :
       \E cost \in {ExtractCost(line)} :
       \E found \in {CategorizeService(line)} :
          IF line = << >> \/ Len(line) < MinLineLength
          THEN UNCHANGED <<pc, raised, service_usages, total_cost>>
          ELSE IF cost.raised # "none"
          THEN /\ raised' = cost.raised
               /\ pc' = "analyze_raised"
               /\ UNCHANGED <<service_usages, total_cost>>
          ELSE IF \/ ~cost.found \/ cost.value = 0
                  \/ found.confidence < ConfidenceFloor
          THEN UNCHANGED <<pc, raised, service_usages, total_cost>>
          ELSE IF AnalyzerNameRaises(line, found.category)
          THEN /\ raised' = "IndexError"
               /\ pc' = "analyze_raised"
               /\ UNCHANGED <<service_usages, total_cost>>
          ELSE /\ service_usages' =
                     Append(service_usages,
                            Usage(line, found.category, cost.value, line_num + 1))
               /\ total_cost' = total_cost + cost.value
               /\ UNCHANGED <<pc, raised>>
    /\ UNCHANGED <<pdf_text, analysis_result, forensicVars, callVars>>
    /\ UNCHANGED <<clientOk, analysis, oracleCalls, oracleReply, passes, result>>

\* analyze_aws_invoice after its loop
AnalyzeFinish ==
    /\ pc = "analyze_lines"
    /\ line_num = Len(Split(pdf_text))
    /\ analysis_result' = GroupAndAnalyze(service_usages, total_cost)
    /\ pc' = "analyze_done"
    /\ UNCHANGED <<pdf_text, line_num, service_usages, total_cost, forensicVars, callVars>>
    /\ UNCHANGED llmVars

\* _extract_cost_from_line called on a line of the text
ExtractCostFromLineCall ==
    /\ pc = "extract_cost_from_line"
    /\ \E lines \in {Split(pdf_text)} :
       \E k \in 1..Len(lines) :
          /\ line_num' = k
          /\ extracted_cost' = ExtractCostFromLine(lines[k])
    /\ UNCHANGED <<pc, pdf_text, forensicVars, analyzerVars, categorized>>
    /\ UNCHANGED llmVars

\* categorize_service called on a line, its category_scores kept
CategorizeCall ==
    /\ pc = "categorize"
    /\ \E lines \in {Split(pdf_text)} :
       \E k \in 1..Len(lines) :
       \E found \in {CategorizeService(lines[k])} :
          /\ line_num' = k
          /\ categorized' = [category |-> found.category,
                             confidence |-> found.confidence,
                             category_scores |-> CategoryScores(lines[k])]
    /\ UNCHANGED <<pc, pdf_text, forensicVars, analyzerVars, extracted_cost>>
    /\ UNCHANGED llmVars

\* every entry point: the LLM pipeline of app.py and the two text extractors
InitAll == Init \/ InitText

NextAll ==
    \/ Extract \/ Validate \/ Gate \/ Reconcile \/ Report
    \/ ForensicStart \/ ForensicLine \/ ForensicFinish \/ ExtractCostCall
    \/ AnalyzeStart \/ AnalyzeLine \/ AnalyzeFinish
    \/ ExtractCostFromLineCall \/ CategorizeCall

SpecAll == InitAll /\ [][NextAll]_vars

\* several invoices handed, one after the other, to the same extractor
\* objects: an invoice with its grand total, a bare amount, an invoice whose
\* first line has a category without name pattern, an invoice whose lines
\* hold keywords of two forensic categories each
SessionTexts ==
    { Join(<<<<"E", "C", "2", " ", "U", "S", "D", " ", "1", "2", ".", "5", "0">>,
             <<"G", "r", "a", "n", "d", " ", "t", "o", "t", "a", "l", ":", " ", "U", "S", "D", " ", "1", "7", ".", "5", "0">>>>),
      <<"U", "S", "D", " ", "5">>,
      Join(<<<<"E", "F", "S", " ", "f", "i", "l", "e", " ", "s", "y", "s", "t", "e", "m", " ", "U", "S", "D", " ", "1", "2", ".", "5", "0">>,
             <<"E", "C", "2", " ", "U", "S", "D", " ", "1", "2", ".", "5", "0">>>>),
      Join(<<<<"R", "D", "S", " ", "d", "b", ".", "t", "3", ".", "m", "i", "c", "r", "o", " ", "U", "S", "D", " ", "5", ".", "0", "0">>,
             <<"A", "W", "S", " ", "B", "a", "c", "k", "u", "p", " ", "s", "n", "a", "p", "s", "h", "o", "t", " ", "U", "S", "D", " ", "1", ".", "0", "0">>>>) }

InitSession ==
    /\ pc \in {"forensic", "analyze", "categorize"}
    /\ pdf_text \in SessionTexts
    /\ line_num = 0
    /\ found_total = 0
    /\ service_items = << >>
    /\ total_extracted = 0
    /\ forensic_analysis = NoForensicAnalysis
    /\ extracted_cost = NoCost
    /\ service_usages = << >>
    /\ total_cost = 0
    /\ analysis_result = NoAnalysisResult
    /\ categorized = NoCategory
    /\ clientOk = FALSE
    /\ analysis = EmptyAnalysis
    /\ raised = "none"
    /\ oracleCalls = 0
    /\ oracleReply = NoReply
    /\ passes = 0
    /\ result = "pending"

\* the caller hands the next invoice to the same objects once a call has
\* returned or raised: neither ForensicAWSExtractor nor AWSServiceAnalyzer
\* has a field written after __init__, and what the earlier calls returned
\* stays with the caller
NextInvoice ==
    /\ pc \in {"forensic_done", "analyze_done", "analyze_raised", "categorize"}
    /\ pc' \in {"forensic", "analyze", "categorize"}
    /\ pdf_text' \in SessionTexts
    /\ line_num' = 0
    /\ raised' = "none"
    /\ UNCHANGED <<forensicVars, analyzerVars, callVars>>
    /\ UNCHANGED <<clientOk, analysis, oracleCalls, oracleReply, passes, result>>

NextSession ==
    \/ ForensicStart \/ ForensicLine \/ ForensicFinish
    \/ AnalyzeStart \/ AnalyzeLine \/ AnalyzeFinish
    \/ CategorizeCall \/ NextInvoice

SpecSession == InitSession /\ [][NextSession]_vars

----------------------------------------------------------------------------
(* Properties *)

Ledger == analysis.service_line_items
Summary == analysis.cost_validation

\* the run is past validate_and_enhance_analysis and holds a ledger
PastValidation ==
    /\ pc \in {"gate", "reconcile", "report", "done", "direct"}
    /\ raised = "none"
    /\ analysis.has_items
    /\ analysis.has_cv

RECURSIVE NumericCostSum(_)
\* the sum of the numeric costs of a ledger, other entries counting nothing
NumericCostSum(items) ==
    IF items = << >> THEN 0
    ELSE (IF Head(items).json = "object" /\ Head(items).cost_usd.t = "num"
          THEN Head(items).cost_usd.v ELSE 0) + NumericCostSum(Tail(items))

WellFormed(item) == item.json = "object" /\ item.cost_usd.t = "num"

\* the first pass located an invoice total, and the summary carries the same
TotalLocated(an) ==
    /\ an.total_invoice_amount.t = "num"
    /\ an.total_invoice_amount.v # 0
    /\ an.cost_validation.invoice_total = an.total_invoice_amount

\* invoice_total - calculated_total of the summary
Gap(an) == an.cost_validation.invoice_total.v - an.cost_validation.calculated_total.v

\* the last request failed in one of the ways an oracle can fail
OracleFailedWith(reply) ==
    \/ reply.kind \in {"raises", "nocontent", "unparsable"}
    \/ reply.kind = "json" /\ reply.missing_items = << >>

\* C1: after first-pass validation and after reconcile_missing_costs has
\* returned by any path, calculated_total is the sum of the costs of the
\* line items in the ledger.
C1_SumInvariant ==
    PastValidation => Summary.calculated_total = Num(NumericCostSum(Ledger))

\* C2 as stated: a call of reconcile_missing_costs in which the oracle is
\* unavailable or fails returns normally, leaves the ledger and the summary
\* as they were, and validation_passed is false.
C2_FailureLeavesFailedLedger ==
    [][ (/\ passes' = passes + 1
         /\ \/ ~clientOk
            \/ OracleAsked(clientOk, analysis) /\ OracleFailedWith(oracleReply'))
        => /\ raised' = "none"
           /\ analysis' = analysis
           /\ analysis'.cost_validation.validation_passed = "false" ]_vars

\* C2 amended: such a call returns normally and leaves the ledger and the
\* summary as they were, so validation_passed keeps its first-pass value: it
\* is false whenever the first pass validated a ledger against a located
\* invoice total and found a difference of 1.00 or more.
C2_FailureLeavesLedgerUnchanged ==
    [][ (/\ passes' = passes + 1
         /\ \/ ~clientOk
            \/ OracleAsked(clientOk, analysis) /\ OracleFailedWith(oracleReply'))
        => /\ raised' = "none"
           /\ analysis' = analysis
           /\ (/\ passes = 0
               /\ analysis.has_items
               /\ TotalLocated(analysis)
               /\ Abs(Gap(analysis)) >= FirstPassTolerance)
              => analysis'.cost_validation.validation_passed = "false" ]_vars

\* an oracle failure on an analysis whose first pass failed by 45.60
C2_Witness ==
    /\ pc = "direct"
    /\ passes = 1
    /\ oracleCalls = 1
    /\ oracleReply.kind = "unparsable"
    /\ TotalLocated(analysis)
    /\ Gap(analysis) = 456000
    /\ Summary.validation_passed = "false"

\* C3: no malformed candidate (not a record, or without a numeric cost_usd)
\* is ever in service_line_items, and the totals are those of the ledger.
C3_MalformedDropped ==
    PastValidation =>
        /\ \A i \in 1..Len(Ledger) : WellFormed(Ledger[i])
        /\ Summary.calculated_total = Num(NumericCostSum(Ledger))

\* C4: with difference = invoice_total - calculated_total, the controller
\* asks the oracle if and only if |difference| >= 1.00, and a ledger within
\* 1.00 is left alone with passed = true.
C4_TriggerAtOneDollar ==
    (PastValidation /\ TotalLocated(analysis) /\ passes = 0) =>
        /\ pc = "reconcile" => Abs(Gap(analysis)) >= FirstPassTolerance
        /\ pc = "report" =>
              /\ Abs(Gap(analysis)) < FirstPassTolerance
              /\ Summary.validation_passed = "true"

\* C5: for one invoice reconcile_missing_costs runs at most once and sends
\* at most one request to the oracle; once it has returned, the run is past
\* reconciliation for good, whether or not passed became true.
C5_SinglePass ==
    /\ oracleCalls <= 1
    /\ passes <= 1
    /\ passes = 1 => pc \in {"report", "done"}

\* the run has ended after one request whose candidates did not close the gap
C5_Witness ==
    /\ pc = "done"
    /\ result = "success"
    /\ oracleCalls = 1
    /\ oracleReply.kind = "json"
    /\ oracleReply.missing_items # << >>
    /\ Summary.validation_passed = "false"

\* C6: a call of reconcile_missing_costs never shortens the ledger and
\* leaves every earlier item in its place unchanged; what it adds are the
\* oracle's candidates, after the earlier items and in the oracle's order.
C6_AdditiveOnly ==
    [][ passes' = passes + 1 =>
          LET before == analysis.service_line_items
              after == analysis'.service_line_items
          IN /\ Len(after) >= Len(before)
             /\ SubSeq(after, 1, Len(before)) = before
             /\ \/ after = before
                \/ /\ oracleReply'.kind = "json"
                   /\ SubSeq(after, Len(before) + 1, Len(after))
                        = oracleReply'.missing_items ]_vars

\* two candidates were appended to a ledger of two items
C6_Witness ==
    /\ passes = 1
    /\ oracleReply.kind = "json"
    /\ Len(oracleReply.missing_items) = 2
    /\ oracleReply.missing_items[1] # oracleReply.missing_items[2]
    /\ Len(Ledger) = 4

\* reconcile_missing_costs merged one or more candidates, all well formed
MergedWellFormed ==
    /\ PastValidation
    /\ passes = 1
    /\ oracleCalls = 1
    /\ oracleReply.kind = "json"
    /\ oracleReply.missing_items # << >>
    /\ \A i \in 1..Len(oracleReply.missing_items) :
          WellFormed(oracleReply.missing_items[i])

\* C7: after a merge of well-formed candidates calculated_total is the sum
\* over the whole enlarged ledger, difference is invoice_total minus
\* calculated_total (signed) and passed holds exactly when |difference| < 1.00.
C7_PostMergeRecomputation ==
    MergedWellFormed =>
        LET total == NumericCostSum(Ledger)
            invoice_total == GetOrZero(Summary.invoice_total).v
        IN /\ Summary.calculated_total = Num(total)
           /\ Summary.difference = Num(invoice_total - total)
           /\ Summary.validation_passed = "true"
                <=> Abs(invoice_total - total) < ReconciledTolerance
           /\ Summary.validation_passed \in {"true", "false"}

\* ledger 3600.00, invoice total 3645.60, one candidate of 45.60
C7_Witness ==
    /\ MergedWellFormed
    /\ Len(Ledger) = 2
    /\ Ledger[1].cost_usd = Num(36000000)
    /\ Ledger[2].cost_usd = Num(456000)
    /\ Summary.invoice_total = Num(36456000)
    /\ Summary.difference = Num(0)
    /\ Summary.validation_passed = "true"

\* C8 as stated: a second call of reconcile_missing_costs, the oracle
\* answering as before, leaves the ledger and the summary of the first call
\* as they are.
C8_Idempotent ==
    [][ (passes = 1 /\ passes' = 2) => analysis' = analysis ]_vars

\* the second call would send a request whose answer carries candidates
SecondPassMerges ==
    /\ clientOk
    /\ analysis.has_items
    /\ Abs(GetOrZero(analysis.cost_validation.invoice_total).v
            - GetOrZero(analysis.cost_validation.calculated_total).v) >= 100
    /\ oracleReply.kind = "json"
    /\ oracleReply.missing_items # << >>

\* C8 amended: a second call leaves the ledger and the summary of the first
\* as they are exactly when it merges nothing, that is when the first call
\* left |invoice_total - calculated_total| < 0.01, or the oracle is
\* unavailable or its answer carries no candidate; otherwise the same
\* candidates are appended a second time.
C8_IdempotentOnceClosed ==
    [][ (passes = 1 /\ passes' = 2) =>
          IF SecondPassMerges
          THEN analysis'.service_line_items
                 = analysis.service_line_items \o oracleReply.missing_items
          ELSE analysis' = analysis ]_vars

\* the second call found the gap closed by the first and changed nothing
C8_Witness ==
    /\ passes = 2
    /\ oracleCalls = 1
    /\ oracleReply.kind = "json"
    /\ Len(oracleReply.missing_items) = 1
    /\ Len(Ledger) = 2
    /\ Summary.difference = Num(0)

\* C9: every line item of a ledger has a cost >= 0 in every reachable state:
\* the items of the validated first pass, the items reconciliation appended
\* from the oracle's candidates, and the items the forensic extractor emits
C9_NonNegativeCost ==
    /\ PastValidation =>
          \A k \in 1..Len(Ledger) : WellFormed(Ledger[k]) => Ledger[k].cost_usd.v >= 0
    /\ \A k \in 1..Len(service_items) : service_items[k].cost_usd >= 0

\* C9, amended: every amount a text extractor reads off a line is >= 0, so
\* every item of the forensic ledger, while it is built and once returned,
\* has a cost >= 0, and so has every amount extract_cost returns
C9_ExtractedCostNonNegative ==
    /\ \A k \in 1..Len(service_items) : service_items[k].cost_usd >= 0
    /\ \A k \in 1..Len(forensic_analysis.service_line_items) :
          forensic_analysis.service_line_items[k].cost_usd >= 0
    /\ extracted_cost.found => extracted_cost.value >= 0

\* C9, witness: the forensic extractor returned a ledger holding a credit
\* line (a minus sign before its amount) with a cost above 0, and a free-tier
\* line of cost 0
C9_ForensicWitness ==
    /\ pc = "forensic_done"
    /\ \E k \in 1..Len(forensic_analysis.service_line_items) :
          LET item == forensic_analysis.service_line_items[k]
          IN /\ item.cost_usd > 0
             /\ \E j \in 1..Len(item.line_text) : item.line_text[j] = "-"
    /\ \E k \in 1..Len(forensic_analysis.service_line_items) :
          forensic_analysis.service_line_items[k].cost_usd = 0

\* the line the last call of extract_cost, _extract_cost_from_line or
\* categorize_service was given
CalledLine == Split(pdf_text)[line_num]

CategorizeReturned == pc = "categorize" /\ line_num > 0

\* the categories with the highest score among those categorize_service kept
TopCategories ==
    {k \in DOMAIN categorized.category_scores :
        \A j \in DOMAIN categorized.category_scores :
            categorized.category_scores[j] <= categorized.category_scores[k]}

\* C11: whenever two or more categories obtain the same highest score for a
\* line, categorize_service returns the one declared earliest in the catalog
C11_TieBreakDeclarationOrder ==
    (CategorizeReturned /\ TopCategories # {}) =>
        \E k \in TopCategories :
            /\ categorized.category = ServicePatterns[k].category
            /\ \A j \in TopCategories : k <= j

\* C11, witness: two categories tied at the top (RDS and EBS on a snapshot
\* line) and the earlier one, RDS, was returned
C11_Witness ==
    /\ CategorizeReturned
    /\ Cardinality(TopCategories) >= 2
    /\ categorized.category = "RDS"

\* the score the catalog gives a lowered line for its k-th category: 2 for
\* every word of every keyword found in it, 1 for every unit found in it
ExpectedScore(line_lower, k) ==
    LET keywords == ServicePatterns[k].keywords
        units == ServicePatterns[k].units
    IN SumOver([j \in 1..Len(keywords) |->
                   IF Contains(line_lower, LowerLine(keywords[j]))
                   THEN 2 * WordCount(keywords[j]) ELSE 0], Len(keywords))
       + Cardinality({j \in 1..Len(units) : Contains(line_lower, LowerLine(units[j]))})

\* the highest of these scores
ExpectedBest(line_lower) ==
    CHOOSE b \in {ExpectedScore(line_lower, k) : k \in 1..Len(ServicePatterns)} :
        \A k \in 1..Len(ServicePatterns) : ExpectedScore(line_lower, k) <= b

\* C12: for every line and every category, the score is the sum over the
\* category's keywords found in the lowered line of 2 x the number of words
\* of the keyword, plus 1 for each of its units found; the confidence
\* returned is min(best score / 10, 1.0)
C12_ClassifierScoring ==
    CategorizeReturned =>
        \E line_lower \in {LowerLine(CalledLine)} :
            /\ \A k \in 1..Len(ServicePatterns) :
                  IF k \in DOMAIN categorized.category_scores
                  THEN categorized.category_scores[k] = ExpectedScore(line_lower, k)
                  ELSE ExpectedScore(line_lower, k) = 0
            /\ categorized.confidence =
                  IF ExpectedBest(line_lower) >= 10 THEN 100
                  ELSE 10 * ExpectedBest(line_lower)

\* C12, witness: a line holding a keyword of three words whose best score,
\* 12 for EC2, is above 10, so that the confidence is capped at 1.0
C12_Witness ==
    /\ CategorizeReturned
    /\ categorized.category = "EC2"
    /\ categorized.category_scores[1] = 12
    /\ categorized.confidence = 100

\* C13: categorize_service returns exactly one category that is a key of the
\* catalog and a confidence in [0,1]; it returns ('Other', 0) if and only if
\* no category scores above 0, and Other with a confidence above 0 only
\* when the Other entry itself scored highest
C13_ClosedCatalogAndRange ==
    CategorizeReturned =>
        \E line_lower \in {LowerLine(CalledLine)} :
            /\ Cardinality({k \in 1..Len(ServicePatterns) :
                                ServicePatterns[k].category = categorized.category}) = 1
            /\ categorized.confidence >= 0
            /\ categorized.confidence <= 100
            /\ (categorized.category = "Other" /\ categorized.confidence = 0)
                  <=> (\A k \in 1..Len(ServicePatterns) : ExpectedScore(line_lower, k) = 0)
            /\ (categorized.category = "Other" /\ categorized.confidence > 0)
                  => \E k \in 1..Len(ServicePatterns) :
                        /\ ServicePatterns[k].category = "Other"
                        /\ ExpectedScore(line_lower, k) = ExpectedBest(line_lower)

\* C13, witness: a line on which no category scores came back as Other
\* with confidence 0
C13_Witness ==
    /\ CategorizeReturned
    /\ categorized.category_scores = << >>
    /\ categorized.category = "Other"
    /\ categorized.confidence = 0

\* the k-th line of the newline-split text, stripped
StrippedLine(k) == Strip(Split(pdf_text)[k])

AnalyzeRunning == pc \in {"analyze_lines", "analyze_done", "analyze_raised"}

ForensicRunning == pc \in {"forensic_lines", "forensic_done", "forensic_raised"}

\* the stripped line has at least 10 characters, a cost other than 0 was
\* extracted and the classifier's confidence is at least 0.1
ClassifiedAdmits(line) ==
    /\ Len(line) >= 10
    /\ ExtractCost(line).found
    /\ ExtractCost(line).value # 0
    /\ CategorizeService(line).confidence >= 10

\* C14: analyze_aws_invoice emits a line item for a line if and only if the
\* stripped line has at least 10 characters, a cost was extracted and is
\* not 0, and the confidence is >= 0.1; every other line is skipped without
\* error and adds nothing to the running total
C14_ClassifiedAdmission ==
    AnalyzeRunning =>
        /\ raised = "none"
        /\ \A k \in 1..line_num :
              ClassifiedAdmits(StrippedLine(k))
                <=> \E i \in 1..Len(service_usages) :
                       /\ service_usages[i].line_number = k
                       /\ service_usages[i].cost = ExtractCost(StrippedLine(k)).value
        /\ total_cost = CostOf(service_usages)

\* C15: extract_all_costs_forensic emits a line item for a line if and only
\* if a cost pattern matched and parsed on that line, whatever its length,
\* category or confidence; lines of cost 0 are emitted and counted
C15_ForensicAdmission ==
    ForensicRunning =>
        /\ raised = "none"
        /\ \A k \in 1..line_num :
              ExtractCostFromLine(StrippedLine(k)).found
                <=> \E i \in 1..Len(service_items) :
                       /\ service_items[i].line_number = k
                       /\ service_items[i].cost_usd = ExtractCostFromLine(StrippedLine(k)).value

ExtractCostReturned == pc = "extract_cost" /\ line_num > 0

\* the patterns in the order of priority: USD-prefixed, $-prefixed,
\* USD-suffixed, "Cost:", "Total:"
PriorityPatterns ==
    << Pattern(<<"u", "s", "d">>, 1, FALSE, "any"),
       Pattern(<<"$">>, 0, FALSE, "any"),
       Pattern(<< >>, -1, FALSE, "usd"),
       Pattern(<<"c", "o", "s", "t", ":">>, 0, TRUE, "any"),
       Pattern(<<"t", "o", "t", "a", "l", ":">>, 0, TRUE, "any") >>

\* what one pattern alone reads off a line: the amount of its leftmost
\* match, commas removed, when that parses as a decimal
ParsedBy(line, p) ==
    LET m == Search(line, p)
        str == WithoutCommas(m.group)
    IN IF m.found /\ ~InvalidDecimal(str)
       THEN [found |-> TRUE, value |-> DecimalValue(str)]
       ELSE [found |-> FALSE, value |-> 0]

\* C16: extract_cost tries its patterns in the fixed order (USD-prefixed,
\* $-prefixed, USD-suffixed, "Cost:", "Total:") and returns the amount of the
\* first pattern whose match parses as a decimal after the commas are
\* removed, whatever the other patterns read
C16_CostPatternPriority ==
    ExtractCostReturned =>
        \E line \in {CalledLine} :
            LET parsing == {k \in 1..Len(PriorityPatterns) :
                               ParsedBy(line, PriorityPatterns[k]).found}
            IN IF parsing = {} THEN ~extracted_cost.found
               ELSE /\ extracted_cost.found
                    /\ \E k \in parsing :
                          /\ \A j \in parsing : k <= j
                          /\ extracted_cost.value = ParsedBy(line, PriorityPatterns[k]).value

\* C16, witness: the USD-prefixed pattern read 7.00 and the $-prefixed one
\* 9.00 off the same line, and 7.00 was returned
C16_Witness ==
    /\ ExtractCostReturned
    /\ ParsedBy(CalledLine, PriorityPatterns[1]) = [found |-> TRUE, value |-> 70000]
    /\ ParsedBy(CalledLine, PriorityPatterns[2]) = [found |-> TRUE, value |-> 90000]
    /\ extracted_cost.value = 70000

CostCallReturned == pc \in {"extract_cost", "extract_cost_from_line"} /\ line_num > 0

\* the patterns of the extractor that was called
PatternsCalled ==
    IF pc = "extract_cost" THEN AnalyzerCostPatterns ELSE ForensicCostPatterns

\* a pattern matched the line with an amount that does not parse
SomeAmountFailsParsing ==
    \E k \in 1..Len(PatternsCalled) :
        /\ Search(CalledLine, PatternsCalled[k]).found
        /\ ~ParsedBy(CalledLine, PatternsCalled[k]).found

NoDigitOnLine == \A k \in 1..Len(CalledLine) : CalledLine[k] \notin DigitChars

\* C17: for every line, cost extraction (both extractors) returns a decimal
\* or "no amount found" without raising; a line with no digits yields "no
\* amount found", and so does a line whose matched amount fails decimal
\* parsing
C17_ParseFailureMeansNoAmount ==
    CostCallReturned =>
        /\ extracted_cost.raised = "none"
        /\ NoDigitOnLine => ~extracted_cost.found
        /\ SomeAmountFailsParsing => ~extracted_cost.found

\* C17, amended: cost extraction never raises; a line with no digits yields
\* "no amount found"; a pattern whose matched amount fails decimal parsing
\* is passed over as if it had not matched, so the line yields "no amount
\* found" exactly when no pattern reads an amount that parses
C17_ParseFailurePassedOver ==
    CostCallReturned =>
        /\ extracted_cost.raised = "none"
        /\ NoDigitOnLine => ~extracted_cost.found
        /\ extracted_cost.found
              <=> \E k \in 1..Len(PatternsCalled) :
                     ParsedBy(CalledLine, PatternsCalled[k]).found

\* C17, witness: the forensic extractor matched an amount made of a comma
\* only, passed that pattern over and returned the amount of a later one
C17_Witness ==
    /\ pc = "extract_cost_from_line"
    /\ line_num > 0
    /\ SomeAmountFailsParsing
    /\ extracted_cost.found
    /\ extracted_cost.raised = "none"

\* the line numbers of a list of items increase strictly and stay within
\* the newline-split text
InDocumentOrder(items) ==
    /\ \A i \in 1..Len(items) : items[i].line_number \in 1..Len(Split(pdf_text))
    /\ \A i, j \in 1..Len(items) : i < j => items[i].line_number < items[j].line_number

IsPrefix(s, t) == Len(s) <= Len(t) /\ s = SubSeq(t, 1, Len(s))

\* C18: the ledger built from a text lists its items in the order of their
\* source lines: each item's line_number is the 1-based index of its line in
\* the newline-split text and its text is that line's, so the line numbers
\* increase strictly along the ledger, in the forensic ledger, in the
\* classified list of usages and in the lists the results return
C18_DocumentOrder ==
    /\ ForensicRunning =>
          /\ InDocumentOrder(service_items)
          /\ \A i \in 1..Len(service_items) :
                /\ service_items[i].line_number <= line_num
                /\ IsPrefix(service_items[i].line_text,
                            StrippedLine(service_items[i].line_number))
          /\ forensic_analysis.returned =>
                forensic_analysis.service_line_items = service_items
    /\ AnalyzeRunning =>
          /\ InDocumentOrder(service_usages)
          /\ \A i \in 1..Len(service_usages) :
                /\ service_usages[i].line_number <= line_num
                /\ service_usages[i].raw_line = StrippedLine(service_usages[i].line_number)
          /\ analysis_result.returned =>
                \A c \in DOMAIN analysis_result.services_by_category :
                    InDocumentOrder(analysis_result.services_by_category[c])

\* C18, witness: a forensic ledger of two items, from lines 1 and 2 of the
\* text, was returned
C18_Witness ==
    /\ pc = "forensic_done"
    /\ Len(forensic_analysis.service_line_items) = 2
    /\ forensic_analysis.service_line_items[1].line_number = 1
    /\ forensic_analysis.service_line_items[2].line_number = 2

\* C19: every line item of the final ledger carries both its source line
\* text and its line_number: the items of the forensic ledger, the items
\* that went through validate_and_enhance_analysis and the items
\* reconcile_missing_costs appended
C19_ProvenancePresent ==
    /\ pc = "forensic_done" =>
          \A i \in 1..Len(forensic_analysis.service_line_items) :
              /\ forensic_analysis.service_line_items[i].line_text # << >>
              /\ forensic_analysis.service_line_items[i].line_number \in 1..Len(Split(pdf_text))
    /\ pc = "done" /\ result = "success" =>
          \A i \in 1..Len(analysis.service_line_items) :
              analysis.service_line_items[i].json = "object" =>
                  /\ analysis.service_line_items[i].line_text # NoKey
                  /\ analysis.service_line_items[i].line_number.t = "num"

RECURSIVE ItemCostSum(_)
\* the costs of the items of a forensic ledger, added up
ItemCostSum(items) ==
    IF items = << >> THEN 0 ELSE Head(items).cost_usd + ItemCostSum(Tail(items))

\* C20: the result of extract_all_costs_forensic has difference =
\* invoice_total - calculated_total, signed, where calculated_total is the sum
\* of the emitted items' costs and invoice_total the total found in the text;
\* validation_passed holds exactly when |difference| < 0.01; total_line_items
\* is the number of emitted items
C20_ForensicSummary ==
    pc = "forensic_done" =>
        /\ forensic_analysis.returned
        /\ forensic_analysis.cost_validation.invoice_total = FindInvoiceTotal(pdf_text)
        /\ forensic_analysis.cost_validation.calculated_total =
              ItemCostSum(forensic_analysis.service_line_items)
        /\ forensic_analysis.cost_validation.difference =
              forensic_analysis.cost_validation.invoice_total
                - forensic_analysis.cost_validation.calculated_total
        /\ forensic_analysis.cost_validation.validation_passed
              <=> /\ forensic_analysis.cost_validation.difference < 100
                  /\ forensic_analysis.cost_validation.difference > -100
        /\ forensic_analysis.total_line_items = Len(forensic_analysis.service_line_items)
        /\ forensic_analysis.total_line_items = Len(service_items)

\* C20, witness: a result whose items add up to more than the invoice total,
\* with a negative difference and the validation failed
C20_Witness ==
    /\ pc = "forensic_done"
    /\ forensic_analysis.total_line_items = 2
    /\ forensic_analysis.cost_validation.difference < 0
    /\ ~forensic_analysis.cost_validation.validation_passed

\* C10: every run ends without an exception and its result carries
\* service_line_items and cost_validation.
C10_AlwaysLedgerAndSummary ==
    pc = "done" =>
        /\ raised = "none"
        /\ result = "success"
        /\ analysis.has_items
        /\ analysis.has_cv

\* validate_and_enhance_analysis has just returned a ledger, with an invoice
\* total located by the first pass
ValidatedWithTotal ==
    /\ pc = "gate"
    /\ raised = "none"
    /\ analysis.has_items
    /\ analysis.total_invoice_amount.t = "num"
    /\ analysis.total_invoice_amount.v # 0

\* C21: after validate_and_enhance_analysis with a located invoice total,
\* cost_validation.difference equals invoice_total - calculated_total, signed
\* (negative when the ledger over-counts), and validation_passed holds exactly
\* when |difference| < 1.00
C21_FirstPassSummarySigned ==
    ValidatedWithTotal =>
        /\ Summary.difference =
              Num(analysis.total_invoice_amount.v - Summary.calculated_total.v)
        /\ Summary.validation_passed = "true"
              <=> Abs(analysis.total_invoice_amount.v - Summary.calculated_total.v)
                     < FirstPassTolerance

\* one of the total patterns reads a parsable amount off the text
TotalInText(text) ==
    \E k \in 1..Len(TotalLabels) :
        /\ SearchTotal(text, TotalLabels[k]).found
        /\ ~InvalidDecimal(WithoutCommas(SearchTotal(text, TotalLabels[k]).group))

\* C22: when no invoice total can be located (no total pattern matches the
\* text, or the analysis carries no invoice total), nothing raises, the
\* validation is skipped and passed is reported as indeterminate, neither
\* true nor false, not computed against some other value
C22_TotalUnavailableIndeterminate ==
    /\ ForensicRunning /\ ~TotalInText(pdf_text) =>
          /\ pc # "forensic_raised"
          /\ pc = "forensic_done" =>
                forensic_analysis.cost_validation.validation_passed \notin BOOLEAN
    /\ (/\ pc = "gate"
        /\ raised = "none"
        /\ analysis.has_items
        /\ ~Truthy(analysis.total_invoice_amount)) =>
          Summary.validation_passed \notin {"true", "false"}

\* the canonical codes of the region table
RegionCodes == {RegionPatterns[k].region_code : k \in 1..Len(RegionPatterns)}

\* the entries of the region table with an alias in the line, case ignored
RegionsNamed(line) ==
    {k \in 1..Len(RegionPatterns) :
        \E j \in 1..Len(RegionPatterns[k].aliases) :
            Contains(LowerLine(line), LowerLine(RegionPatterns[k].aliases[j]))}

\* C23: every emitted line item has a region that is a canonical region code
\* of the region table or 'unknown', never null; in classified mode it is
\* the code of the first table entry, in declaration order, with an alias
\* that occurs in the line, case ignored
C23_RegionCanonicalOrUnknown ==
    /\ AnalyzeRunning =>
          \A i \in 1..Len(service_usages) :
              \E named \in {RegionsNamed(service_usages[i].raw_line)} :
                  /\ service_usages[i].region \in RegionCodes \cup {UnknownRegion}
                  /\ named = {} <=> service_usages[i].region = UnknownRegion
                  /\ \A k \in named :
                        (\A j \in named : k <= j)
                            => service_usages[i].region = RegionPatterns[k].region_code
    /\ ForensicRunning =>
          \A i \in 1..Len(service_items) :
              service_items[i].region \in RegionCodes \cup {UnknownRegion}
    /\ PastValidation /\ pc # "direct" =>
          \A i \in 1..Len(Ledger) :
              Ledger[i].json = "object" => Ledger[i].region # NoKey

\* some usage pattern of the list reads a quantity that parses off the line
UsageFound(line, patterns) ==
    \E k \in 1..Len(patterns) : UsageParses(SearchUsage(line, patterns[k]))

\* the usage the first such pattern of the list reads
FirstPatternUsage(line, patterns) ==
    UsageOf(SearchUsage(line,
        patterns[CHOOSE k \in 1..Len(patterns) :
                    /\ UsageParses(SearchUsage(line, patterns[k]))
                    /\ \A j \in 1..(k - 1) : ~UsageParses(SearchUsage(line, patterns[j]))]))

\* C24: when no "<number> <unit>" pattern matches a line, the emitted item
\* has usage_quantity 0.0 and the sentinel unit; usage_quantity is always a
\* non-negative number; when several patterns match, the first pattern of
\* the fixed order gives quantity and unit
C24_UsageDefaults ==
    /\ AnalyzeRunning =>
          \A i \in 1..Len(service_usages) :
              \E line \in {service_usages[i].raw_line} :
                  /\ service_usages[i].usage_quantity >= 0
                  /\ IF UsageFound(line, AnalyzerUsagePatterns)
                     THEN /\ service_usages[i].usage_quantity =
                                FirstPatternUsage(line, AnalyzerUsagePatterns).quantity
                          /\ service_usages[i].usage_unit =
                                LowerLine(FirstPatternUsage(line, AnalyzerUsagePatterns).unit)
                     ELSE /\ service_usages[i].usage_quantity = 0
                          /\ service_usages[i].usage_unit = AnalyzerNoUsage.unit
    /\ ForensicRunning =>
          \A i \in 1..Len(service_items) :
              \E line \in {StrippedLine(service_items[i].line_number)} :
                  /\ service_items[i].usage_quantity >= 0
                  /\ IF UsageFound(line, ForensicUsagePatterns)
                     THEN /\ service_items[i].usage_quantity =
                                FirstPatternUsage(line, ForensicUsagePatterns).quantity
                          /\ service_items[i].usage_unit =
                                FirstPatternUsage(line, ForensicUsagePatterns).unit
                     ELSE /\ service_items[i].usage_quantity = 0
                          /\ service_items[i].usage_unit = ForensicDefaultUsage.unit

RECURSIVE FreshItems(_, _)
\* the items extract_all_costs_forensic builds from the first n lines of a
\* text when it starts from nothing
FreshItems(lines, n) ==
    IF n = 0 THEN << >>
    ELSE LET line == Strip(lines[n])
             cost == ExtractCostFromLine(line)
         IN  IF line # << >> /\ cost.raised = "none" /\ cost.found
                /\ CreateServiceItemError(line) = "none"
             THEN Append(FreshItems(lines, n - 1), CreateServiceItem(line, cost.value, n))
             ELSE FreshItems(lines, n - 1)

RECURSIVE FreshUsages(_, _)
\* the usages analyze_aws_invoice builds from the first n lines of a text
\* when it starts from nothing and no line raises
FreshUsages(lines, n) ==
    IF n = 0 THEN << >>
    ELSE LET line == Strip(lines[n])
             cost == ExtractCost(line)
             found == CategorizeService(line)
         IN  IF /\ line # << >> /\ Len(line) >= MinLineLength
                /\ cost.raised = "none" /\ cost.found /\ cost.value # 0
                /\ found.confidence >= ConfidenceFloor
             THEN Append(FreshUsages(lines, n - 1),
                         Usage(line, found.category, cost.value, n))
             ELSE FreshUsages(lines, n - 1)

RECURSIVE UsageCostSum(_)
UsageCostSum(usages) ==
    IF usages = << >> THEN 0 ELSE usages[1].cost + UsageCostSum(Tail(usages))

\* C25: whatever invoices the same objects processed before, the forensic
\* ledger and summary, the analyzer's result and the classifier's answer are
\* those a fresh object gives for the current text alone
C25_IsolatedFromEarlierInvoices ==
    /\ pc = "forensic_done" =>
          \E items \in {FreshItems(Split(pdf_text), Len(Split(pdf_text)))} :
             forensic_analysis =
                ForensicAnalysis(items, FindInvoiceTotal(pdf_text), ItemCostSum(items))
    /\ pc = "analyze_done" =>
          \E usages \in {FreshUsages(Split(pdf_text), Len(Split(pdf_text)))} :
             analysis_result = GroupAndAnalyze(usages, UsageCostSum(usages))
    /\ (pc = "categorize" /\ line_num > 0) =>
          \E found \in {CategorizeService(Split(pdf_text)[line_num])} :
             /\ categorized.category = found.category
             /\ categorized.confidence = found.confidence

\* C25 witness: a forensic run has returned the ledger of the bare amount
\* after the same session analysed an invoice and classified a line
C25_Witness ==
    /\ pc = "forensic_done"
    /\ analysis_result # NoAnalysisResult
    /\ categorized # NoCategory
    /\ pdf_text = <<"U", "S", "D", " ", "5">>

\* C26: when validation found a difference with invoice_summary's total and
\* reconciliation is entered, the invoice_total reconcile_missing_costs reads
\* from cost_validation is present and is that same total
C26_OneInvoiceTotal ==
    (pc = "reconcile" /\ Truthy(analysis.total_invoice_amount)) =>
        /\ analysis.cost_validation.invoice_total.t # "absent"
        /\ analysis.cost_validation.invoice_total = analysis.total_invoice_amount

\* C27: no item of the forensic ledger comes from a line the invoice total
\* can be read off: the grand-total line is not emitted as a charge
C27_TotalLineNotACharge ==
    pc = "forensic_done" =>
        \A i \in 1..Len(forensic_analysis.service_line_items) :
            ~TotalInText(forensic_analysis.service_line_items[i].line_text)

\* the lines of the text analyze_aws_invoice takes further than its cost
\* check: at least 10 characters after strip() and a cost other than 0
CostedLines(text) ==
    {n \in 1..Len(Split(text)) :
        /\ Len(Strip(Split(text)[n])) >= MinLineLength
        /\ ExtractCost(Strip(Split(text)[n])).found
        /\ ExtractCost(Strip(Split(text)[n])).value # 0}

\* C28: the classifier's confidence is at least 0.1 exactly when some
\* category scored 1 or more; of the lines with a cost analyze_aws_invoice
\* keeps those with a score and no others
C28_FloorFiltersUnscored ==
    /\ (pc = "categorize" /\ line_num > 0) =>
          (categorized.confidence >= ConfidenceFloor
             <=> \E k \in DOMAIN categorized.category_scores :
                    categorized.category_scores[k] >= 1)
    /\ pc = "analyze_done" =>
          {service_usages[i].line_number : i \in 1..Len(service_usages)}
             = {n \in CostedLines(pdf_text) :
                   DOMAIN CategoryScores(Strip(Split(pdf_text)[n])) # {}}

\* C28 witness: a line whose best score is 1, of a unit alone, classified
\* with confidence 0.1
C28_Witness ==
    /\ pc = "categorize"
    /\ line_num > 0
    /\ categorized.confidence = ConfidenceFloor
    /\ \A k \in DOMAIN categorized.category_scores : categorized.category_scores[k] = 1

\* a text field of a cleaned item: the value of the input, or the default
\* where the input has no such key
TextFieldKept(before, after, default) ==
    after = IF before = NoKey THEN default ELSE before

\* a numeric field of a cleaned item: the number of the input, or 0.0
NumberFieldKept(before, after) ==
    after = Num(IF before.t = "absent" THEN 0 ELSE before.v)

\* the nine fields of a cleaned item against the item it was made from
NineFieldsSet(before, after) ==
    /\ TextFieldKept(before.service_category, after.service_category, "Unknown")
    /\ TextFieldKept(before.service_name, after.service_name, "Unknown Service")
    /\ TextFieldKept(before.service_type, after.service_type, "Standard")
    /\ TextFieldKept(before.region, after.region, "unknown")
    /\ NumberFieldKept(before.usage_quantity, after.usage_quantity)
    /\ TextFieldKept(before.usage_unit, after.usage_unit, "Units")
    /\ TextFieldKept(before.rate_description, after.rate_description, "Standard Rate")
    /\ NumberFieldKept(before.cost_usd, after.cost_usd)
    /\ TextFieldKept(before.line_text, after.line_text, "")

\* C29: when validate_and_enhance_analysis returns, its ledger has as many
\* items as the input, in the same order, each with its nine fields set
\* (missing ones defaulted, present ones kept), and applying it to its own
\* output raises nothing and gives that output again
C29_ValidateKeepsLedger ==
    [][ (pc = "validate" /\ pc' = "gate") =>
          /\ Len(analysis'.service_line_items) = Len(analysis.service_line_items)
          /\ \A i \in 1..Len(analysis.service_line_items) :
                NineFieldsSet(analysis.service_line_items[i],
                              analysis'.service_line_items[i])
          /\ ValidateError(analysis') = "none"
          /\ Validated(analysis') = analysis' ]_vars

\* C29 witness: a validated ledger of two items, 3600.00 with its fields
\* given before 44.60 with its fields defaulted
C29_Witness ==
    /\ pc = "gate"
    /\ Len(analysis.service_line_items) = 2
    /\ analysis.service_line_items[1].cost_usd = Num(36000000)
    /\ analysis.service_line_items[1].service_name = "text"
    /\ analysis.service_line_items[2].cost_usd = Num(446000)
    /\ analysis.service_line_items[2].service_name = "Unknown Service"
    /\ analysis.service_line_items[2].usage_quantity = Num(0)

\* the categories of _categorize_service in the order the claim gives them
ForensicOrder ==
    <<"EC2", "RDS", "S3", "EFS", "CloudWatch", "DataTransfer", "Backup",
      "Marketplace", "EBS", "Other">>

\* a keyword of the list of category occurs in the lowercased line
KeywordOf(category, line) ==
    \E k \in 1..Len(ForensicCategories) :
        /\ ForensicCategories[k].category = category
        /\ \E j \in 1..Len(ForensicCategories[k].keywords) :
              Contains(LowerLine(line), ForensicCategories[k].keywords[j])

\* category is in the order at a place whose keyword list has a member in
\* the lowercased line, or is Other, and no list earlier in the order has
FirstMatchInOrder(category, line) ==
    \E p \in 1..Len(ForensicOrder) :
        /\ category = ForensicOrder[p]
        /\ p < Len(ForensicOrder) => KeywordOf(ForensicOrder[p], line)
        /\ \A q \in 1..(p - 1) : ~KeywordOf(ForensicOrder[q], line)

\* C30: _categorize_service gives every line with a cost that the forensic
\* run has come to, and every item of the ledger, one of the ten categories:
\* the first in the order whose keyword list has a member in the lowercased
\* line, or Other when no list has
C30_ForensicFirstMatch ==
    /\ pc \in {"forensic_lines", "forensic_done"} =>
          \A n \in 1..line_num :
             ExtractCostFromLine(Strip(Split(pdf_text)[n])).found =>
                FirstMatchInOrder(ForensicCategorize(Strip(Split(pdf_text)[n])),
                                  Strip(Split(pdf_text)[n]))
    /\ pc = "forensic_done" =>
          \A i \in 1..Len(forensic_analysis.service_line_items) :
             FirstMatchInOrder(forensic_analysis.service_line_items[i].service_category,
                               forensic_analysis.service_line_items[i].line_text)

\* C30 witness: a ledger whose first line names RDS and holds the EC2
\* keyword t3., filed under EC2, and whose second line holds keywords of
\* Backup and EBS, filed under Backup
C30_Witness ==
    /\ pc = "forensic_done"
    /\ Len(forensic_analysis.service_line_items) = 2
    /\ forensic_analysis.service_line_items[1].service_category = "EC2"
    /\ KeywordOf("RDS", forensic_analysis.service_line_items[1].line_text)
    /\ forensic_analysis.service_line_items[2].service_category = "Backup"
    /\ KeywordOf("EBS", forensic_analysis.service_line_items[2].line_text)

====
